---- MODULE Spec2Model ----
(***************************************************************************)
(* A model of the raven-cvpr puzzle dataset generator: panels, the rule    *)
(* classes of dataset/core/rules, RowGenerator and PuzzleGenerator.        *)
(*                                                                         *)
(* A panel is a 3x3 grid of entity slots.  Cell k of the model is the      *)
(* grid position (row, col) = ((k-1) \div 3, (k-1) % 3).  The layout seen  *)
(* by the attribute rules is the list of existing entities in row-major    *)
(* order (converters.tensor_to_aot), so children[0] is the first filled    *)
(* cell.                                                                    *)
(***************************************************************************)
EXTENDS Integers, Sequences, FiniteSets, TLC

\* ------------------------------------------------------------------------
\* Attributes (core/aot/attributes.py)
\* ------------------------------------------------------------------------
GridSize == 3

Cells == 1..(GridSize * GridSize)

TYPE_MIN_VAL == 2
TYPE_MAX_VAL == 5
SIZE_MIN_VAL == 0
SIZE_MAX_VAL == 5
ANGLE_MIN_VAL == 0
ANGLE_MAX_VAL == 7
COLOR_MIN_VAL == 0
COLOR_MAX_VAL == 9

\* len(ANGLE_VALUES)
NumAngles == 8

AttrMin(a) ==
    CASE a = "type" -> TYPE_MIN_VAL
      [] a = "size" -> SIZE_MIN_VAL
      [] a = "angle" -> ANGLE_MIN_VAL
      [] a = "color" -> COLOR_MIN_VAL
      [] OTHER -> 0

AttrMax(a) ==
    CASE a = "type" -> TYPE_MAX_VAL
      [] a = "size" -> SIZE_MAX_VAL
      [] a = "angle" -> ANGLE_MAX_VAL
      [] a = "color" -> COLOR_MAX_VAL
      [] OTHER -> 1

\* a next_value that stops at the ends of the range instead of wrapping
NextValueClamped(a, value, step) ==
    IF value + step > AttrMax(a) THEN AttrMax(a)
    ELSE IF value + step < AttrMin(a) THEN AttrMin(a)
    ELSE value + step

\* Attribute.next_value: wrap around inside [min_val, max_val]
NextValue(a, value, step) ==
    AttrMin(a) + ((value - AttrMin(a) + step) % (AttrMax(a) - AttrMin(a) + 1))

\* ------------------------------------------------------------------------
\* Panels
\* ------------------------------------------------------------------------
EmptyEntity == [exists |-> 0, type |-> 0, size |-> 0, angle |-> 0, color |-> 0]

Entity(t, s, a, c) == [exists |-> 1, type |-> t, size |-> s, angle |-> a, color |-> c]

\* TensorPanel() with no tensor: all slots zero
EmptyPanel == [cells |-> [k \in Cells |-> EmptyEntity], uniformity |-> FALSE]

\* TensorPanel.clone / copy.deepcopy: an equal value held by a new object
Clone(p) == p

\* the filled cells of a panel
Filled(p) == {k \in Cells : p.cells[k].exists = 1}

\* index of children[0]: the first existing entity in row-major order
First(p) == CHOOSE k \in Filled(p) : \A j \in Filled(p) : k <= j

\* "for entity in layout.children: entity.<attr>.set_value_level(v)"
SetAll(p, a, v) ==
    [p EXCEPT !.cells = [k \in Cells |->
        IF p.cells[k].exists = 1 THEN [p.cells[k] EXCEPT ![a] = v] ELSE p.cells[k]]]

\* AngleHandler.get_value: 0 for a layout without children
AngleGetValue(p) == IF Filled(p) = {} THEN 0 ELSE p.cells[First(p)].angle

\* ------------------------------------------------------------------------
\* Rules and their state
\* ------------------------------------------------------------------------
\* A rule object: its class (kind), targeted attribute (or shift direction),
\* value (step), a flag (clockwise), its sub-rules (composite) and the
\* number of panels it declares to need.
MkRule(kind, attr, value, req) ==
    [kind |-> kind, attr |-> attr, value |-> value, flag |-> TRUE,
     subs |-> <<>>, required_panels |-> req]

\* Rule.__init__ and the subclasses' constructors: self.state
LeafState ==
    [memory |-> <<>>, first_col |-> TRUE, count |-> 0, value_levels |-> <<>>,
     subs |-> <<>>]

FreshState(rule) ==
    [LeafState EXCEPT !.subs = [k \in 1..Len(rule.subs) |-> LeafState]]

\* outcome of one call of rule.apply: err = "" when the call returned `out`;
\* st and src are the rule state and the source panel after the call
\* (every apply() builds its result on a deepcopy or clone of the source, so
\* the returned object is never the source object itself)
Ret(st, src, out) ==
    [err |-> "", st |-> st, src |-> src, out |-> out, aliased |-> FALSE]

Raise(st, src, e) ==
    [err |-> e, st |-> st, src |-> src, out |-> src, aliased |-> FALSE]

EntityAttrs == {"type", "size", "color"}

\* ConstantRule.apply
ConstantApply(rule, st, src) == {Ret(st, src, Clone(src))}

\* ProgressionRule.apply with _apply_to_entity_attribute
ProgressionValue(old, step) == old + step

\* a faulty apply that toggles the flag before it looks at the panel
ProgressionApplyEarlyToggle(rule, st, src) ==
    IF rule.attr \notin EntityAttrs
    THEN {Raise(st, src, "ValueError")}
    ELSE IF Filled(src) = {}
    THEN {Raise([st EXCEPT !.first_col = ~st.first_col], src, "IndexError")}
    ELSE LET old == src.cells[First(src)][rule.attr]
             src2 == IF st.first_col /\ ~src.uniformity
                     THEN SetAll(src, rule.attr, old) ELSE src
             out == SetAll(src, rule.attr, ProgressionValue(old, rule.value))
         IN {Ret([st EXCEPT !.first_col = ~st.first_col], src2, out)}

ProgressionApply(rule, st, src) ==
    IF rule.attr \notin EntityAttrs
    THEN {Raise(st, src, "ValueError")}
    ELSE IF Filled(src) = {}
    THEN {Raise(st, src, "IndexError")}
    ELSE LET old == src.cells[First(src)][rule.attr]
             src2 == IF st.first_col /\ ~src.uniformity
                     THEN SetAll(src, rule.attr, old) ELSE src
             out == SetAll(src, rule.attr, ProgressionValue(old, rule.value))
         IN {Ret([st EXCEPT !.first_col = ~st.first_col], src2, out)}

\* AngleAddition.apply / AngleSubtraction.apply
AngleOperation(rule, first, second) ==
    IF rule.value > 0 THEN (first + second) % NumAngles
    ELSE (first - second) % NumAngles

\* AngleRule.apply
AngleApply(rule, st, src) ==
    IF st.memory = <<>>
    THEN LET first == AngleGetValue(src)
         IN {Ret([st EXCEPT !.memory = <<first>>], src,
                 SetAll(src, "angle", (first + rule.value) % NumAngles))}
    ELSE LET result == AngleOperation(rule, st.memory[1], AngleGetValue(src))
         IN {Ret([st EXCEPT !.memory = <<>>], src, SetAll(src, "angle", result))}

\* ArithmeticRule.apply, "Size" and "Type" branches.  The second-column call
\* stores the first entity's level and samples the target's level inside the
\* narrowed constraint; the third-column call pops the stored level first and
\* only then reads the current panel.
ArithOffset(a) == IF a = "size" THEN 1 ELSE 0

ArithResult(rule, first, cur) ==
    IF rule.value > 0 THEN first + cur + ArithOffset(rule.attr)
    ELSE first - cur - ArithOffset(rule.attr)

\* the integer levels inside [new_min, new_max] of the second layout's
\* constraint after the update (the subtracting branches halve the minimum)
ArithSampleRange(rule, old) ==
    LET lo == AttrMin(rule.attr)
        hi == AttrMax(rule.attr)
    IN IF rule.value > 0
       THEN lo..(lo + hi - old)
       ELSE IF rule.attr = "size"
       THEN (lo \div 2)..(old - 1 - (lo \div 2))
       ELSE ((lo + 1) \div 2)..old

ArithmeticConsume(rule, st, src) ==
    LET popped == [st EXCEPT !.memory = SubSeq(st.memory, 1, Len(st.memory) - 1)]
        first == st.memory[Len(st.memory)]
    IN IF Filled(src) = {}
       THEN {Raise(popped, src, "IndexError")}
       ELSE {Ret(popped, src,
                 SetAll(src, rule.attr,
                        ArithResult(rule, first, src.cells[First(src)][rule.attr])))}

ArithmeticStore(rule, st, src) ==
    IF Filled(src) = {}
    THEN {Raise(st, src, "IndexError")}
    ELSE LET old == src.cells[First(src)][rule.attr]
             st2 == [st EXCEPT !.memory = Append(st.memory, old)]
             src2 == IF ~src.uniformity THEN SetAll(src, rule.attr, old) ELSE src
         IN IF ArithSampleRange(rule, old) = {}
            THEN {Raise(st2, src2, "ValueError")}
            ELSE {Ret(st2, src2, SetAll(src, rule.attr, v)) :
                     v \in ArithSampleRange(rule, old)}

ArithmeticApply(rule, st, src) ==
    IF rule.attr \notin {"size", "type"}
    THEN {Raise(st, src, "ValueError")}
    ELSE IF Len(st.memory) > 0
    THEN ArithmeticConsume(rule, st, src)
    ELSE ArithmeticStore(rule, st, src)

\* a faulty pattern table: both later rows are the same cyclic shift
SetupValuePatternsRepeated(t, coin) ==
    IF coin
    THEN << <<t[1], t[2], t[3]>>, <<t[2], t[3], t[1]>>, <<t[2], t[3], t[1]>> >>
    ELSE << <<t[1], t[2], t[3]>>, <<t[3], t[1], t[2]>>, <<t[3], t[1], t[2]>> >>

\* a faulty pattern table: rows 2 and 3 repeat row 1 unshifted
SetupValuePatternsUnshifted(t, coin) ==
    << <<t[1], t[2], t[3]>>, <<t[1], t[2], t[3]>>, <<t[1], t[2], t[3]>> >>

\* DistributeThreeRule._setup_value_patterns: row 1 in the chosen order,
\* rows 2 and 3 the two cyclic shifts in either order
SetupValuePatterns(t, coin) ==
    IF coin
    THEN << <<t[1], t[2], t[3]>>, <<t[2], t[3], t[1]>>, <<t[3], t[1], t[2]>> >>
    ELSE << <<t[1], t[2], t[3]>>, <<t[3], t[1], t[2]>>, <<t[2], t[3], t[1]>> >>

\* np.random.choice(range(min, max + 1), 3, False): three distinct levels
ThreeValueLevels(a) ==
    {t \in [1..3 -> AttrMin(a)..AttrMax(a)] :
        t[1] # t[2] /\ t[1] # t[3] /\ t[2] # t[3]}

\* the calls of one pass over a grid: two per row, three rows
D3Period == 6

\* a faulty counter update that wraps after four calls
D3PlaceShortCycle(rule, st, vl, src) ==
    LET row == (st.count \div 2) + 1
        col == st.count % 2
        st2 == [st EXCEPT !.value_levels = vl, !.count = (st.count + 1) % 4]
    IN IF col = 0
       THEN Ret(st2, SetAll(src, rule.attr, vl[row][1]),
                SetAll(src, rule.attr, vl[row][2]))
       ELSE Ret(st2, src, SetAll(src, rule.attr, vl[row][3]))

\* DistributeThreeRule.apply once value_levels is known (count = c)
D3Place(rule, st, vl, src) ==
    LET row == (st.count \div 2) + 1
        col == st.count % 2
        st2 == [st EXCEPT !.value_levels = vl, !.count = (st.count + 1) % D3Period]
    IN IF col = 0
       THEN Ret(st2, SetAll(src, rule.attr, vl[row][1]),
                SetAll(src, rule.attr, vl[row][2]))
       ELSE Ret(st2, src, SetAll(src, rule.attr, vl[row][3]))

DistributeThreeApply(rule, st, src) ==
    IF rule.attr \notin EntityAttrs
    THEN {Raise(st, src, "ValueError")}
    ELSE IF st.count = 0
    THEN {D3Place(rule, st, SetupValuePatterns(t, coin), src) :
             t \in ThreeValueLevels(rule.attr), coin \in BOOLEAN}
    ELSE {D3Place(rule, st, st.value_levels, src)}

\* ------------------------------------------------------------------------
\* Spatial rules (core/rules/spatial.py, core/tensors/tensor_transforms.py)
\* ------------------------------------------------------------------------
CellOf(r, c) == GridSize * r + c + 1

RowOf(k) == (k - 1) \div GridSize

ColOf(k) == (k - 1) % GridSize

\* tensor.transpose(0, 1).flip(0): result[i][j] = tensor[j][2 - i]
Rot90Clockwise(cells) ==
    [k \in Cells |-> cells[CellOf(ColOf(k), GridSize - 1 - RowOf(k))]]

\* tensor.transpose(0, 1).flip(1): result[i][j] = tensor[2 - j][i]
Rot90CounterClockwise(cells) ==
    [k \in Cells |-> cells[CellOf(GridSize - 1 - ColOf(k), RowOf(k))]]

\* a rotation that forgets to repeat the quarter turn
RotateOnce(cells, shifts) ==
    IF shifts % 4 = 0 THEN cells
    ELSE [k \in Cells |-> cells[GridSize * ColOf(k) + (GridSize - 1 - RowOf(k)) + 1]]

RECURSIVE rotate_90_clockwise(_, _)
rotate_90_clockwise(cells, shifts) ==
    IF shifts % 4 = 0 THEN cells
    ELSE rotate_90_clockwise(Rot90Clockwise(cells), (shifts % 4) - 1)

RECURSIVE rotate_90_counterclockwise(_, _)
rotate_90_counterclockwise(cells, shifts) ==
    IF shifts % 4 = 0 THEN cells
    ELSE rotate_90_counterclockwise(Rot90CounterClockwise(cells), (shifts % 4) - 1)

\* a shift that drops what moves over the edge instead of wrapping around
RollNoWrap(cells, dr, dc) ==
    [k \in Cells |->
        IF /\ RowOf(k) - dr \in 0..(GridSize - 1)
           /\ ColOf(k) - dc \in 0..(GridSize - 1)
        THEN cells[GridSize * (RowOf(k) - dr) + (ColOf(k) - dc) + 1]
        ELSE EmptyEntity]

\* torch.roll(tensor, shifts=(dr, dc), dims=(0, 1))
Roll(cells, dr, dc) ==
    [k \in Cells |-> cells[CellOf((RowOf(k) - dr) % GridSize, (ColOf(k) - dc) % GridSize)]]

\* RotationRule.apply
RotationApply(rule, st, src) ==
    {Ret(st, src, [Clone(src) EXCEPT !.cells =
        IF rule.flag THEN rotate_90_clockwise(src.cells, rule.value)
        ELSE rotate_90_counterclockwise(src.cells, rule.value)])}

ShiftDirections == {"right", "left", "up", "down", "diagonal", "reverse_diagonal"}

\* a faulty shift that writes the moved entities over a copy of the source
\* without clearing the cells they left
ShiftApplyKeepsSource(rule, st, src) ==
    LET s == rule.value
        moved == CASE rule.attr \in {"right", "left"} ->
                        Roll(src.cells, 0, IF rule.attr = "right" THEN s ELSE -s)
                   [] rule.attr \in {"down", "up"} ->
                        Roll(src.cells, IF rule.attr = "down" THEN s ELSE -s, 0)
                   [] OTHER ->
                        Roll(src.cells, IF rule.attr = "diagonal" THEN s ELSE -s,
                                        IF rule.attr = "diagonal" THEN s ELSE -s)
    IN {Ret(st, src, [Clone(src) EXCEPT !.cells =
           [k \in Cells |-> IF moved[k].exists = 1 THEN moved[k] ELSE src.cells[k]]])}

\* ShiftRule.apply
ShiftApply(rule, st, src) ==
    IF rule.attr \notin ShiftDirections
    THEN {Raise(st, src, "ValueError")}
    ELSE LET s == rule.value
             moved == CASE rule.attr = "right" -> Roll(src.cells, 0, s)
                        [] rule.attr = "left" -> Roll(src.cells, 0, -s)
                        [] rule.attr = "down" -> Roll(src.cells, s, 0)
                        [] rule.attr = "up" -> Roll(src.cells, -s, 0)
                        [] rule.attr = "diagonal" -> Roll(src.cells, s, s)
                        [] OTHER -> Roll(src.cells, -s, -s)
         IN {Ret(st, src, [Clone(src) EXCEPT !.cells = moved])}

\* ------------------------------------------------------------------------
\* Dispatch, chains and composites
\* ------------------------------------------------------------------------
\* rule.apply for the rule classes that hold no other rules
ApplyLeaf(rule, st, src) ==
    CASE rule.kind = "constant" -> ConstantApply(rule, st, src)
      [] rule.kind = "progression" -> ProgressionApply(rule, st, src)
      [] rule.kind = "angle" -> AngleApply(rule, st, src)
      [] rule.kind = "arithmetic" -> ArithmeticApply(rule, st, src)
      [] rule.kind = "distribute_three" -> DistributeThreeApply(rule, st, src)
      [] rule.kind = "rotation" -> RotationApply(rule, st, src)
      [] rule.kind = "shift" -> ShiftApply(rule, st, src)
      [] OTHER -> {Raise(st, src, "ValueError")}

\* "for rule in rules: result = rule.apply([result])" from rule k on: the
\* outcomes [err, sts, out].  Each rule reads the panel returned by the one
\* before it; a raise stops the loop with the states reached so far.
RECURSIVE ApplyChain(_, _, _, _)
ApplyChain(rs, sts, k, panel) ==
    IF k > Len(rs)
    THEN {[err |-> "", sts |-> sts, out |-> panel]}
    ELSE UNION {
           IF o.err # ""
           THEN {[err |-> o.err, sts |-> [sts EXCEPT ![k] = o.st], out |-> panel]}
           ELSE ApplyChain(rs, [sts EXCEPT ![k] = o.st], k + 1, o.out)
           : o \in ApplyLeaf(rs[k], sts[k], panel)}

\* a faulty composite that hands every sub-rule the composite's own input
\* and returns what the last sub-rule makes of it
CompositeApplyLastOnly(rule, st, src) ==
    IF Len(rule.subs) = 0
    THEN {Ret(st, src, Clone(src))}
    ELSE {[err |-> o.err, st |-> st, src |-> src,
           out |-> IF o.err = "" THEN o.out ELSE src, aliased |-> FALSE] :
             o \in ApplyLeaf(rule.subs[Len(rule.subs)],
                             st.subs[Len(rule.subs)], Clone(src))}

\* CompositeRule.apply
CompositeApply(rule, st, src) ==
    IF Len(rule.subs) = 0
    THEN {Ret(st, src, Clone(src))}
    ELSE {[err |-> o.err, st |-> [st EXCEPT !.subs = o.sts], src |-> src,
           out |-> IF o.err = "" THEN o.out ELSE src, aliased |-> FALSE] :
             o \in ApplyChain(rule.subs, st.subs, 1, Clone(src))}

\* rule.apply([panel]) for any rule
Apply(rule, st, src) ==
    IF rule.kind = "composite" THEN CompositeApply(rule, st, src)
    ELSE ApplyLeaf(rule, st, src)

\* rule.apply([]): the composite checks for an empty list, the spatial
\* rules index panels[0], the attribute rules read the layout of their
\* argument
ApplyNoPanels(rule) ==
    CASE rule.kind = "composite" -> "ValueError"
      [] rule.kind \in {"rotation", "shift"} -> "IndexError"
      [] OTHER -> "AttributeError"

\* ------------------------------------------------------------------------
\* State
\* ------------------------------------------------------------------------
VARIABLES
    rules,      \* the rule objects in use (self.rules)
    rstate,     \* rstate[k]: the state dictionary of rules[k]
    pc,         \* position of the running driver
    panels,     \* the panels built so far by the running driver
    last,       \* the most recent call: arguments, result, state before
    gen         \* PuzzleGenerator: configuration, loop variables, counters

vars == <<rules, rstate, pc, panels, last, gen>>

NoCall ==
    [op |-> "none", before |-> EmptyPanel, after |-> EmptyPanel,
     out |-> EmptyPanel, err |-> "", aliased |-> FALSE, pre |-> <<>>,
     calls |-> 0, ok |-> 0, seeds |-> <<>>, row |-> <<>>,
     prev |-> EmptyPanel, attr |-> "", value |-> 0, step |-> 0, result |-> 0,
     back |-> 0, cell |-> 0, tier |-> ""]

GenIdle == [phase |-> "idle"]

\* ------------------------------------------------------------------------
\* Single rules applied to panels (the rule unit tests' usage)
\* ------------------------------------------------------------------------
MaxApplies == 4

Rotation(step, clockwise) ==
    [MkRule("rotation", "position", step, 1) EXCEPT !.flag = clockwise]

Composite(subs) ==
    [MkRule("composite", "", 0, 1) EXCEPT !.subs = subs]

RuleObjects ==
    { MkRule("progression", "type", 1, 1),
      MkRule("progression", "size", 2, 1),
      MkRule("progression", "angle", 1, 1),
      MkRule("constant", "type", 0, 1),
      MkRule("arithmetic", "size", 1, 1),
      MkRule("arithmetic", "type", 1, 1),
      MkRule("arithmetic", "size", -1, 1),
      MkRule("angle", "angle", 1, 1),
      MkRule("angle", "angle", -1, 1),
      MkRule("distribute_three", "type", 0, 1),
      Rotation(1, TRUE),
      Rotation(1, FALSE),
      MkRule("shift", "right", 1, 1),
      MkRule("shift", "diagonal", 2, 1),
      MkRule("shift", "left", 1, 1),
      MkRule("shift", "up", 2, 1),
      MkRule("shift", "down", -1, 1),
      MkRule("shift", "reverse_diagonal", 4, 1),
      Rotation(3, TRUE),
      Rotation(5, TRUE),
      Rotation(6, FALSE),
      Composite(<<MkRule("shift", "right", 2, 1), MkRule("shift", "right", 5, 1)>>),
      Composite(<<MkRule("progression", "type", 1, 1), MkRule("shift", "right", 1, 1)>>),
      Composite(<<MkRule("angle", "angle", 1, 1), MkRule("progression", "size", 1, 1)>>),
      Composite(<<>>),
      Composite(<<MkRule("progression", "size", 1, 1), MkRule("shift", "down", 1, 1),
                  MkRule("angle", "angle", 1, 1)>>),
      Composite(<<MkRule("progression", "type", 1, 1),
                  MkRule("arithmetic", "size", 1, 2)>>) }

TestEntities == {Entity(1, 3, 0, 1), Entity(3, 2, 4, 0), Entity(5, 5, 7, 9)}

OnePanel(k, e) ==
    [cells |-> [c \in Cells |-> IF c = k THEN e ELSE EmptyEntity],
     uniformity |-> FALSE]

TwoPanel(k1, e1, k2, e2, u) ==
    [cells |-> [c \in Cells |-> IF c = k1 THEN e1 ELSE IF c = k2 THEN e2 ELSE EmptyEntity],
     uniformity |-> u]

\* panels handed to a rule: empty, one entity, two entities; a layout sampled
\* as uniform holds identical entities (sampler.sample_layout)
RulePanels ==
    {EmptyPanel}
    \cup {OnePanel(k, e) : k \in {1, 5}, e \in TestEntities}
    \cup {TwoPanel(1, e1, 6, e2, FALSE) : e1 \in TestEntities, e2 \in TestEntities}
    \cup {TwoPanel(1, e, 6, e, TRUE) : e \in TestEntities}

RuleInit ==
    /\ rules \in {<<r>> : r \in RuleObjects}
    /\ rstate = <<FreshState(rules[1])>>
    /\ pc = "rule"
    /\ panels = <<>>
    /\ last = NoCall
    /\ gen = GenIdle

\* the record of one call rule.apply([p]) with outcome o; when the call
\* starts with a value in the rule's memory, prev is the panel that value
\* was read from (the argument of the call before)
CallRecord(p, o) ==
    [NoCall EXCEPT !.op = "apply", !.before = p, !.after = o.src, !.out = o.out,
                   !.err = o.err, !.aliased = o.aliased, !.pre = rstate,
                   !.prev = IF Len(rstate[1].memory) > 0 THEN last.before
                            ELSE EmptyPanel,
                   !.calls = last.calls + 1,
                   !.ok = IF o.err = "" THEN last.ok + 1 ELSE last.ok]

\* rule.apply([p]) on a panel of the caller's choice
RuleApplyNew ==
    /\ pc = "rule"
    /\ last.calls < MaxApplies
    /\ \E p \in RulePanels : \E o \in Apply(rules[1], rstate[1], p) :
         /\ rstate' = <<o.st>>
         /\ last' = CallRecord(p, o)
         /\ panels' = IF o.err = "" THEN <<o.src, o.out>> ELSE <<o.src>>
    /\ UNCHANGED <<rules, pc, gen>>

\* rule.apply([q]) where q is the panel the previous call returned
RuleApplyNext ==
    /\ pc = "rule"
    /\ last.calls < MaxApplies
    /\ last.op = "apply" /\ last.err = ""
    /\ \E o \in Apply(rules[1], rstate[1], last.out) :
         /\ rstate' = <<o.st>>
         /\ last' = CallRecord(last.out, o)
         /\ panels' = IF o.err = ""
                      THEN Append([panels EXCEPT ![Len(panels)] = o.src], o.out)
                      ELSE [panels EXCEPT ![Len(panels)] = o.src]
    /\ UNCHANGED <<rules, pc, gen>>

\* rule.apply([]) as the first call on the rule: no panel is handed over and
\* the call raises before the rule or any panel is touched
RuleApplyNoPanels ==
    /\ pc = "rule"
    /\ last.op = "none"
    /\ last' = [NoCall EXCEPT !.op = "apply_none", !.err = ApplyNoPanels(rules[1]),
                              !.pre = rstate]
    /\ UNCHANGED <<rules, rstate, pc, panels, gen>>

RuleNext == RuleApplyNew \/ RuleApplyNext \/ RuleApplyNoPanels

RuleSpec == RuleInit /\ [][RuleNext]_vars

\* C2 (as stated): for a memory-based rule the memory never holds more than
\* one value, the odd-numbered successful apply() calls start fresh and
\* leave the rule armed, the even-numbered ones start armed and leave it
\* fresh, and after an even number of successful calls the memory is empty.
MemoryRule == rules[1].kind \in {"arithmetic", "angle"}

C2_StrictAlternation ==
    (pc = "rule" /\ MemoryRule) =>
        /\ Len(rstate[1].memory) <= 1
        /\ (last.ok % 2 = 0) => rstate[1].memory = <<>>
        /\ (last.op = "apply" /\ last.err = "") =>
              IF last.ok % 2 = 1
              THEN last.pre[1].memory = <<>> /\ Len(rstate[1].memory) = 1
              ELSE Len(last.pre[1].memory) = 1 /\ rstate[1].memory = <<>>

\* C40: the ProgressionRule first-column flag starts set, is flipped exactly
\* once by each apply() that returns and is left unchanged by one that
\* raises, so it is set before the 1st, 3rd, 5th... successful application
\* and clear before the 2nd, 4th...; the entities of the source layout are
\* forced to the first entity's value only in an application that starts
\* with the flag set on a non-uniform layout.
C40_FirstColFlag ==
    (pc = "rule" /\ rules[1].kind = "progression") =>
        /\ last.op = "none" => rstate[1].first_col
        /\ rstate[1].first_col = (last.ok % 2 = 0)
        /\ (last.op = "apply" /\ last.err = "") =>
              /\ rstate[1] = [last.pre[1] EXCEPT !.first_col = ~last.pre[1].first_col]
              /\ last.pre[1].first_col = (last.ok % 2 = 1)
        /\ (last.op \in {"apply", "apply_none"} /\ last.err # "") =>
              rstate = last.pre
        /\ (last.op = "apply") =>
              last.after =
                 IF last.err = "" /\ last.pre[1].first_col /\ ~last.before.uniformity
                 THEN SetAll(last.before, rules[1].attr,
                             last.before.cells[First(last.before)][rules[1].attr])
                 ELSE last.before

\* the third returned application, on a non-uniform panel whose entities
\* it has made equal, after an application that raised with the flag clear
C40_Witness ==
    /\ pc = "rule" /\ rules[1].kind = "progression"
    /\ last.op = "apply" /\ last.err = ""
    /\ last.ok = 3 /\ last.calls = 4
    /\ last.after # last.before

\* a raising application that found the flag clear and left it clear
C40_RaiseWitness ==
    /\ pc = "rule" /\ rules[1].kind = "progression"
    /\ last.op = "apply" /\ last.err # ""
    /\ last.ok = 1 /\ ~rstate[1].first_col

\* C9 (as stated): when apply() returns, the panel passed in is unchanged
\* and the panel returned is another object.
C9_InputsUnchanged ==
    (pc = "rule" /\ last.op = "apply" /\ last.err = "") =>
        last.after = last.before /\ ~last.aliased

\* every existing entity moved to next_value of its own current value
PerEntityNextValue(p, a, s) ==
    [p EXCEPT !.cells = [k \in Cells |->
        IF p.cells[k].exists = 1
        THEN [p.cells[k] EXCEPT ![a] = NextValue(a, p.cells[k][a], s)]
        ELSE p.cells[k]]]

\* C10 (as stated): a ProgressionRule on an entity attribute returns the
\* input with every existing entity's targeted attribute replaced by
\* next_value of that entity's own value (wrapping), everything else equal.
C10_PerEntityProgression ==
    (pc = "rule" /\ rules[1].kind = "progression" /\ last.op = "apply"
       /\ last.err = "") =>
        last.out = PerEntityNextValue(last.before, rules[1].attr, rules[1].value)

\* the last call returned and found a stored value: it is the second of a
\* pair, the call before it (on last.prev) stored that value
Consumed ==
    /\ pc = "rule" /\ last.op = "apply" /\ last.err = ""
    /\ Len(last.pre[1].memory) > 0

\* C11 (as stated): the result of an ArithmeticRule over the panels P1 (the
\* one stored from) and P2 (the current one) has an entity at a cell exactly
\* when both P1 and P2 have one there.
C11_ArithmeticDomain ==
    (Consumed /\ rules[1].kind = "arithmetic") =>
        \A k \in Cells :
            (last.out.cells[k].exists = 1)
                <=> (last.prev.cells[k].exists = 1 /\ last.before.cells[k].exists = 1)

\* C12 (as stated): for ArithmeticRule on size with operands a (first panel)
\* and b (second panel) every entity of the result has size (a + b) mod
\* (max + 1) for add, (a - b) mod (max + 1) for subtract, a value inside the
\* attribute's range.
C12_ArithmeticModular ==
    (Consumed /\ rules[1].kind = "arithmetic" /\ rules[1].attr = "size") =>
        LET a == last.prev.cells[First(last.prev)].size
            b == last.before.cells[First(last.before)].size
            expected == IF rules[1].value > 0
                        THEN (a + b) % (SIZE_MAX_VAL + 1)
                        ELSE (a - b) % (SIZE_MAX_VAL + 1)
        IN \A k \in Filled(last.out) :
              /\ last.out.cells[k].size = expected
              /\ last.out.cells[k].size \in SIZE_MIN_VAL..SIZE_MAX_VAL

\* all existing entities of p carry the angle level a
AllAngles(p, a) == Filled(p) # {} /\ \A k \in Filled(p) : p.cells[k].angle = a

\* C13 (as stated): AngleRule(value = v) on a panel whose entities have
\* angle a returns a panel with angle (a + v) mod 8 everywhere, and applied
\* again to that panel returns one with angle (a + 2v) mod 8 everywhere.
C13_AngleSequence ==
    (pc = "rule" /\ rules[1].kind = "angle" /\ last.op = "apply" /\ last.err = "") =>
        LET v == rules[1].value
        IN /\ \A a \in ANGLE_MIN_VAL..ANGLE_MAX_VAL :
                (last.pre[1].memory = <<>> /\ AllAngles(last.before, a)) =>
                    AllAngles(last.out, (a + v) % NumAngles)
           /\ \A a \in ANGLE_MIN_VAL..ANGLE_MAX_VAL :
                (/\ Len(last.pre[1].memory) > 0
                 /\ AllAngles(last.prev, a)
                 /\ AllAngles(last.before, (a + v) % NumAngles)) =>
                    AllAngles(last.out, (a + 2 * v) % NumAngles)

\* every existing entity has its four attributes inside [min_val, max_val]
SchemaValid(p) ==
    \A k \in Filled(p) : \A a \in {"type", "size", "angle", "color"} :
        p.cells[k][a] \in AttrMin(a)..AttrMax(a)

\* C17 (as stated): a panel returned by a rule applied to schema-valid
\* panels has between 0 and 9 entities, each with type, size, angle and
\* color inside the attribute's bounds.
C17_SchemaBounds ==
    (pc = "rule" /\ last.op = "apply" /\ last.err = ""
       /\ SchemaValid(last.before) /\ SchemaValid(last.prev)) =>
        /\ Cardinality(Filled(last.out)) \in 0..(GridSize * GridSize)
        /\ SchemaValid(last.out)

\* n quarter turns, n in 0..3
Turns(cells, n, clockwise) ==
    LET q(c) == IF clockwise THEN Rot90Clockwise(c) ELSE Rot90CounterClockwise(c)
    IN CASE n = 0 -> cells
         [] n = 1 -> q(cells)
         [] n = 2 -> q(q(cells))
         [] OTHER -> q(q(q(cells)))

\* C18: RotationRule(1, clockwise) applied four times in succession gives
\* back the first panel, and a rotation by step s gives the panel that
\* s mod 4 quarter turns give.
C18_RotationRoundTrip ==
    (pc = "rule" /\ rules[1].kind = "rotation") =>
        /\ (rules[1] = Rotation(1, TRUE) /\ Len(panels) = 5) => panels[5] = panels[1]
        /\ (last.op = "apply" /\ last.err = "") =>
              /\ last.out.cells = Turns(last.before.cells, rules[1].value % 4, rules[1].flag)
              /\ last.out.uniformity = last.before.uniformity

\* four quarter turns of a panel that a quarter turn changes
C18_Witness ==
    /\ pc = "rule" /\ rules[1] = Rotation(1, TRUE)
    /\ Len(panels) = 5 /\ panels[2] # panels[1] /\ panels[3] # panels[1]
    /\ panels[4] # panels[1]

\* C19 (as stated): RotationRule(1, clockwise = True) moves the entity at
\* (r, c) to (c, 2 - r); RotationRule(1, clockwise = False) moves it to
\* (2 - c, r).
C19_RotationDirection ==
    (pc = "rule" /\ rules[1].kind = "rotation" /\ rules[1].value = 1
       /\ last.op = "apply" /\ last.err = "") =>
        \A r \in 0..(GridSize - 1) : \A c \in 0..(GridSize - 1) :
            IF rules[1].flag
            THEN last.out.cells[CellOf(c, GridSize - 1 - r)] = last.before.cells[CellOf(r, c)]
            ELSE last.out.cells[CellOf(GridSize - 1 - c, r)] = last.before.cells[CellOf(r, c)]

\* the panel one ShiftRule of the same direction with step n returns for p
ShiftedOnce(rule, n, p) ==
    {o.out : o \in ShiftApply([rule EXCEPT !.value = n], LeafState, p)}

\* C20: a ShiftRule applied n times in succession gives the panel that one
\* shift of n times the step gives; ShiftRule('right', 1) applied three
\* times gives back the first panel; a shift by a followed by a shift by b
\* in the same direction is the shift by a + b.
C20_ShiftComposition ==
    /\ (pc = "rule" /\ rules[1].kind = "shift" /\ Len(panels) >= 2) =>
          /\ ShiftedOnce(rules[1], (Len(panels) - 1) * rules[1].value, panels[1])
                = {panels[Len(panels)]}
          /\ (rules[1].attr = "right" /\ rules[1].value = 1 /\ Len(panels) = 4) =>
                panels[4] = panels[1]
    /\ (/\ pc = "rule" /\ rules[1].kind = "composite" /\ Len(rules[1].subs) = 2
        /\ rules[1].subs[1].kind = "shift" /\ rules[1].subs[2].kind = "shift"
        /\ rules[1].subs[1].attr = rules[1].subs[2].attr
        /\ last.op = "apply" /\ last.err = "") =>
          ShiftedOnce(rules[1].subs[1],
                      rules[1].subs[1].value + rules[1].subs[2].value, last.before)
            = {last.out}

\* three shifts to the right of a panel that a shift changes
C20_Witness ==
    /\ pc = "rule" /\ rules[1].kind = "shift" /\ rules[1].attr = "right"
    /\ rules[1].value = 1 /\ Len(panels) = 4
    /\ panels[2] # panels[1] /\ panels[3] # panels[1] /\ panels[3] # panels[2]

\* the number of cells of panel p holding the cell vector e
Copies(p, e) == Cardinality({k \in Cells : p.cells[k] = e})

\* the displacement (rows, columns) a ShiftRule direction stands for
ShiftVector(rule) ==
    CASE rule.attr = "right" -> <<0, rule.value>>
      [] rule.attr = "left" -> <<0, -rule.value>>
      [] rule.attr = "down" -> <<rule.value, 0>>
      [] rule.attr = "up" -> <<-rule.value, 0>>
      [] rule.attr = "diagonal" -> <<rule.value, rule.value>>
      [] OTHER -> <<-rule.value, -rule.value>>

\* C21: for every ShiftRule direction, every integer step and every panel,
\* the output holds exactly the same multiset of cell vectors as the input,
\* so the entity count is unchanged; only the positions change, each cell's
\* content moving by the direction's displacement with wraparound.
C21_ShiftPreservesCells ==
    (pc = "rule" /\ rules[1].kind = "shift" /\ last.op = "apply") =>
        /\ last.err = ""
        /\ \A k \in Cells :
              /\ Copies(last.out, last.before.cells[k])
                    = Copies(last.before, last.before.cells[k])
              /\ Copies(last.before, last.out.cells[k])
                    = Copies(last.out, last.out.cells[k])
        /\ Cardinality(Filled(last.out)) = Cardinality(Filled(last.before))
        /\ \A k \in Cells :
              last.out.cells[CellOf((RowOf(k) + ShiftVector(rules[1])[1]) % GridSize,
                                    (ColOf(k) + ShiftVector(rules[1])[2]) % GridSize)]
                = last.before.cells[k]

\* a shift with a negative step, and one with a step beyond the grid size,
\* each moving the entities of a two-entity panel
C21_Witness ==
    /\ pc = "rule" /\ rules[1].kind = "shift" /\ last.op = "apply"
    /\ rules[1].attr \in {"down", "reverse_diagonal"}
    /\ Cardinality(Filled(last.before)) = 2
    /\ last.out # last.before

\* the panels that applying the rules rs[k], rs[k+1], ... one after the other
\* by hand, each in state sts[k], can give for a first argument drawn from S
RECURSIVE SequentialOuts(_, _, _, _)
SequentialOuts(rs, sts, k, S) ==
    IF k > Len(rs) THEN S
    ELSE SequentialOuts(rs, sts, k + 1,
            UNION {{o.out : o \in {x \in Apply(rs[k], sts[k], q) : x.err = ""}} :
                     q \in S})

\* C22: CompositeRule([r1, ..., rn]).apply([P]) returns the panel obtained by
\* applying r1 to P, then r2 to that result, and so on, cell for cell; with
\* an empty rule list the result equals P; with an empty panel list apply()
\* fails with an error.
C22_CompositeSequential ==
    /\ (pc = "rule" /\ rules[1].kind = "composite" /\ last.op = "apply") =>
          LET outs == SequentialOuts(rules[1].subs, last.pre[1].subs, 1, {last.before})
          IN /\ (last.err = "") => last.out \in outs
             /\ (outs = {}) => last.err # ""
             /\ (Len(rules[1].subs) = 0) => (last.err = "" /\ last.out = last.before)
    /\ (pc = "rule" /\ rules[1].kind = "composite" /\ last.op = "apply_none") =>
          last.err # ""

\* a composite of three rules whose result differs from its input, an
\* empty composite that has been applied, and a composite handed no panel
C22_Witness ==
    /\ pc = "rule" /\ rules[1].kind = "composite"
    /\ \/ /\ Len(rules[1].subs) = 3 /\ last.op = "apply" /\ last.err = ""
          /\ last.out # last.before /\ Filled(last.before) # {}
       \/ /\ Len(rules[1].subs) = 0 /\ last.op = "apply"
          /\ Filled(last.before) # {}
       \/ last.op = "apply_none"

\* C23 (as stated): a CompositeRule that holds a two-panel sub-rule at any
\* position after the first is reported as a configuration error when it is
\* applied; the sub-rule is never applied to the single intermediate panel.
C23_BinarySubRuleRejected ==
    (/\ pc = "rule" /\ rules[1].kind = "composite" /\ last.op = "apply"
     /\ \E k \in 2..Len(rules[1].subs) : rules[1].subs[k].required_panels = 2) =>
        last.err # ""

\* ------------------------------------------------------------------------
\* Rules applied in grid order (core/puzzle_generator.py, _generate_panels)
\* ------------------------------------------------------------------------
GridRules ==
    { MkRule("distribute_three", "type", 0, 1), MkRule("progression", "size", 1, 1),
      MkRule("distribute_three", "angle", 0, 1) }

\* the rule applications followed: one grid and the start of the next
MaxGridApplies == 7

\* start panels of the rows: start_node and its resampled variations
GridPanels ==
    { EmptyPanel,
      OnePanel(5, Entity(1, 3, 0, 1)),
      OnePanel(1, Entity(3, 2, 4, 0)),
      TwoPanel(1, Entity(1, 3, 0, 1), 6, Entity(5, 5, 7, 9), FALSE) }

PanelsInit ==
    /\ rules \in {<<r>> : r \in GridRules}
    /\ rstate = <<FreshState(rules[1])>>
    /\ pc = "panels"
    /\ panels = <<>>
    /\ last = NoCall
    /\ gen = GenIdle

\* row_r_1 = copy.deepcopy(start_node) (resampled for rows 2 and 3)
PanelsRowStart ==
    /\ pc = "panels"
    /\ Len(panels) < GridSize * GridSize
    /\ Len(panels) % GridSize = 0
    /\ \E p \in GridPanels : panels' = Append(panels, p)
    /\ UNCHANGED <<rules, rstate, pc, last, gen>>

\* row_r_2 = rule.apply_rule(row_r_1); row_r_3 = rule.apply_rule(row_r_2)
PanelsApplyRule ==
    /\ pc = "panels"
    /\ Len(panels) % GridSize # 0
    /\ last.calls < MaxGridApplies
    /\ \E o \in Apply(rules[1], rstate[1], panels[Len(panels)]) :
         /\ rstate' = <<o.st>>
         /\ last' = CallRecord(panels[Len(panels)], o)
         /\ panels' = IF o.err = ""
                      THEN Append([panels EXCEPT ![Len(panels)] = o.src], o.out)
                      ELSE [panels EXCEPT ![Len(panels)] = o.src]
         /\ pc' = IF o.err # "" THEN "raised"
                  ELSE IF Len(panels) + 1 = GridSize * GridSize THEN "returned"
                  ELSE "panels"
    /\ UNCHANGED <<rules, gen>>

\* the next grid is built with the same rule object (the rules are made
\* once, by load_config, and every attempt of generate applies them again);
\* of the finished grid only the number of applications is kept
PanelsAgain ==
    /\ pc = "returned"
    /\ last.calls < MaxGridApplies
    /\ panels' = <<>>
    /\ last' = [NoCall EXCEPT !.calls = last.calls, !.ok = last.ok]
    /\ pc' = "panels"
    /\ UNCHANGED <<rules, rstate, gen>>

PanelsNext == PanelsRowStart \/ PanelsApplyRule \/ PanelsAgain

PanelsSpec == PanelsInit /\ [][PanelsNext]_vars

RowIndex(n) == ((n - 1) \div GridSize) + 1

ColIndex(n) == ((n - 1) % GridSize) + 1

\* panel n has been passed to or returned by the rule
Placed(n) == ColIndex(n) > 1 \/ Len(panels) > n

\* C3: applied in grid order, one DistributeThreeRule gives the existing
\* entities of panel (r, c) the value value_levels[r][c], where row 1 is
\* three pairwise distinct values (v0, v1, v2) and rows 2 and 3 are the two
\* cyclic shifts (v1, v2, v0) and (v2, v0, v1) in either order.
C3_DistributeThreeGrid ==
    (pc \in {"panels", "returned"} /\ rules[1].kind = "distribute_three"
       /\ Len(panels) >= 2) =>
        LET vl == rstate[1].value_levels
            v == vl[1]
        IN /\ Len(vl) = 3
           /\ v[1] # v[2] /\ v[1] # v[3] /\ v[2] # v[3]
           /\ {vl[2], vl[3]} = {<<v[2], v[3], v[1]>>, <<v[3], v[1], v[2]>>}
           /\ vl[2] # vl[3]
           /\ \A n \in 1..Len(panels) : Placed(n) =>
                 \A k \in Filled(panels[n]) :
                    panels[n].cells[k][rules[1].attr] = vl[RowIndex(n)][ColIndex(n)]

\* a complete grid of non-empty panels produced by a DistributeThreeRule
C3_Witness ==
    /\ pc = "returned" /\ rules[1].kind = "distribute_three"
    /\ Len(panels) = GridSize * GridSize
    /\ \A n \in 1..Len(panels) : Filled(panels[n]) # {}
    /\ \E n \in 1..Len(panels) : Cardinality(Filled(panels[n])) = 2

\* the table vl is a Latin square: every row and every column holds each of
\* the three values of its first row exactly once
LatinSquare(vl) ==
    LET values == {vl[1][c] : c \in 1..3}
    IN /\ Len(vl) = 3
       /\ \A r \in 1..3 : Len(vl[r]) = 3
       /\ Cardinality(values) = 3
       /\ \A r \in 1..3 : {vl[r][c] : c \in 1..3} = values
       /\ \A c \in 1..3 : {vl[r][c] : r \in 1..3} = values

\* C38: after _setup_value_patterns the 3x3 table of row patterns is a Latin
\* square over the three chosen values, every row and every column holding
\* each of the three distinct values exactly once, for both outcomes of the
\* choice between the two row orders.
C38_LatinSquare ==
    (rules[1].kind = "distribute_three" /\ rstate[1].value_levels # <<>>) =>
        /\ LatinSquare(rstate[1].value_levels)
        /\ \E t \in ThreeValueLevels(rules[1].attr), coin \in BOOLEAN :
              rstate[1].value_levels = SetupValuePatterns(t, coin)

\* the second grid has just drawn a table in one row order while the first
\* grid used the other order
C38_Witness ==
    /\ rules[1].kind = "distribute_three" /\ last.err = ""
    /\ last.pre # <<>> /\ last.pre[1].count = 0 /\ last.pre[1].value_levels # <<>>
    /\ LET old == last.pre[1].value_levels
           new == rstate[1].value_levels
       IN /\ old[2] = <<old[1][2], old[1][3], old[1][1]>>
          /\ new[2] = <<new[1][3], new[1][1], new[1][2]>>

\* C34: the DistributeThreeRule counter always lies in 0..5, increases by
\* exactly 1 modulo 6 on each apply() that returns and is unchanged by one
\* that raises; the three values and the row patterns are chosen exactly
\* when apply() runs with the counter at 0 and are left unchanged by the
\* applications at 1..5; after six applications the counter is 0 again; an
\* application with counter 2k or 2k+1 uses row k of the patterns.
C34_CounterCycle ==
    (rules[1].kind = "distribute_three") =>
        /\ rstate[1].count \in 0..5
        /\ rstate[1].count = last.ok % 6
        /\ (last.ok = 0) <=> (rstate[1].value_levels = <<>>)
        /\ (last.op = "apply" /\ last.err # "") => rstate = last.pre
        /\ (last.op = "apply" /\ last.err = "") =>
              LET c == last.pre[1].count
                  vl == rstate[1].value_levels
                  a == rules[1].attr
              IN /\ rstate[1].count = (c + 1) % 6
                 /\ c \in 1..5 => vl = last.pre[1].value_levels
                 /\ c = 0 => \E t \in ThreeValueLevels(a), coin \in BOOLEAN :
                                vl = SetupValuePatterns(t, coin)
                 /\ \E k \in 0..2 :
                       /\ c \in {2 * k, 2 * k + 1}
                       /\ c = 2 * k =>
                             /\ \A e \in Filled(last.after) :
                                   last.after.cells[e][a] = vl[k + 1][1]
                             /\ \A e \in Filled(last.out) :
                                   last.out.cells[e][a] = vl[k + 1][2]
                       /\ c = 2 * k + 1 =>
                             \A e \in Filled(last.out) :
                                last.out.cells[e][a] = vl[k + 1][3]

\* the seventh application of one rule object: the counter was back at 0
\* and the patterns of the finished grid were replaced by new ones
C34_Witness ==
    /\ rules[1].kind = "distribute_three"
    /\ last.op = "apply" /\ last.err = "" /\ last.ok = 7
    /\ last.pre[1].count = 0 /\ rstate[1].count = 1
    /\ last.pre[1].value_levels # <<>>
    /\ rstate[1].value_levels[1] # last.pre[1].value_levels[1]
    /\ Filled(last.out) # {}

\* ------------------------------------------------------------------------
\* RowGenerator (core/generators/row_generator.py)
\* ------------------------------------------------------------------------
\* values tried for an attribute that a rule resamples
ResampleWidth == 1

ResampleValues(a) ==
    {v \in AttrMin(a)..AttrMax(a) : v < AttrMin(a) + ResampleWidth}

ResampledEntities ==
    {Entity(t, z, g, c) : t \in ResampleValues("type"), z \in ResampleValues("size"),
                          g \in ResampleValues("angle"), c \in ResampleValues("color")}

\* the two-panel ArithmeticRule: where both panels hold an entity the result
\* holds a fresh entity whose targeted attribute is (v1 op v2) mod (max + 1);
\* every other cell is empty
ArithmeticApply2(rule, st, p1, p2) ==
    IF rule.attr \notin {"size", "color"}
    THEN {Raise(st, p1, "ValueError")}
    ELSE LET both == Filled(p1) \cap Filled(p2)
             val(k) == IF rule.value > 0
                       THEN (p1.cells[k][rule.attr] + p2.cells[k][rule.attr])
                                % (AttrMax(rule.attr) + 1)
                       ELSE (p1.cells[k][rule.attr] - p2.cells[k][rule.attr])
                                % (AttrMax(rule.attr) + 1)
         IN {Ret(st, p1,
                 [cells |-> [k \in Cells |->
                     IF k \in both THEN [f[k] EXCEPT ![rule.attr] = val(k)]
                     ELSE EmptyEntity],
                  uniformity |-> FALSE]) : f \in [both -> ResampledEntities]}

\* rule.apply([panel1, panel2])
Apply2(rule, st, p1, p2) ==
    IF rule.kind = "arithmetic" THEN ArithmeticApply2(rule, st, p1, p2)
    ELSE {Raise(st, p1, "TypeError")}

\* a row slot not yet filled (None)
NonePanel == [cells |-> <<>>, uniformity |-> FALSE]

\* RowGenerator.__init__: self._required_panels
RequiredPanels(rs) ==
    CHOOSE m \in {rs[k].required_panels : k \in 1..Len(rs)} :
        \A k \in 1..Len(rs) : rs[k].required_panels <= m

OnePanelRules(rs) == {k \in 1..Len(rs) : rs[k].required_panels = 1}

TwoPanelRules(rs) == {k \in 1..Len(rs) : rs[k].required_panels = 2}

\* a faulty check that also rejects exactly enough seeds
NotEnoughSeedsOffByOne(n, req) == n <= req

\* RowGenerator._validate_num_panels: the condition that raises
NotEnoughSeeds(n, req) == n < req

\* RowGenerator._apply_one_panel_rules from rule k on
RECURSIVE ApplyOnePanelRules(_, _, _, _)
ApplyOnePanelRules(rs, sts, k, panel) ==
    IF k > Len(rs)
    THEN {[err |-> "", sts |-> sts, out |-> panel]}
    ELSE IF rs[k].required_panels # 1
    THEN ApplyOnePanelRules(rs, sts, k + 1, panel)
    ELSE UNION {
           IF o.err # ""
           THEN {[err |-> o.err, sts |-> [sts EXCEPT ![k] = o.st], out |-> panel]}
           ELSE ApplyOnePanelRules(rs, [sts EXCEPT ![k] = o.st], k + 1, o.out)
           : o \in Apply(rs[k], sts[k], panel)}

\* a faulty loop that hands each two-panel rule the previous rule's output
\* in place of column 1
RECURSIVE ApplyTwoPanelRulesChained(_, _, _, _, _, _)
ApplyTwoPanelRulesChained(rs, sts, k, p1, p2, panel) ==
    IF k > Len(rs)
    THEN {[err |-> "", sts |-> sts, out |-> panel]}
    ELSE IF rs[k].required_panels # 2
    THEN ApplyTwoPanelRulesChained(rs, sts, k + 1, p1, p2, panel)
    ELSE UNION {
           IF o.err # ""
           THEN {[err |-> o.err, sts |-> [sts EXCEPT ![k] = o.st], out |-> panel]}
           ELSE ApplyTwoPanelRulesChained(rs, [sts EXCEPT ![k] = o.st], k + 1,
                                          o.out, p2, o.out)
           : o \in Apply2(rs[k], sts[k], p1, p2)}

\* RowGenerator._apply_two_panel_rules from rule k on; `panel` is the result
\* of the last rule applied so far
RECURSIVE ApplyTwoPanelRules(_, _, _, _, _, _)
ApplyTwoPanelRules(rs, sts, k, p1, p2, panel) ==
    IF k > Len(rs)
    THEN {[err |-> "", sts |-> sts, out |-> panel]}
    ELSE IF rs[k].required_panels # 2
    THEN ApplyTwoPanelRules(rs, sts, k + 1, p1, p2, panel)
    ELSE UNION {
           IF o.err # ""
           THEN {[err |-> o.err, sts |-> [sts EXCEPT ![k] = o.st], out |-> panel]}
           ELSE ApplyTwoPanelRules(rs, [sts EXCEPT ![k] = o.st], k + 1, p1, p2, o.out)
           : o \in Apply2(rs[k], sts[k], p1, p2)}

RowError(sts) == [err |-> "RowError", sts |-> sts, row |-> <<>>]

\* "row = [None, None, None]; row[:len(seed_panels)] = seed_panels[:]"
InitialRow(seeds) ==
    IF Len(seeds) >= 3 THEN seeds
    ELSE SubSeq(seeds \o <<NonePanel, NonePanel, NonePanel>>, 1, 3)

\* "row[2] = panel": the list `row` with its third slot replaced
SetThird(row, panel) == <<row[1], row[2], panel>> \o SubSeq(row, 4, Len(row))

\* generate(): the one-panel stage, columns 2 and 3 chained from column 1
RowOnePanelStage(rs, sts, row) ==
    IF OnePanelRules(rs) = {}
    THEN {[err |-> "", sts |-> sts, row |-> row]}
    ELSE UNION {
           IF o1.err # "" THEN {RowError(o1.sts)}
           ELSE {IF o2.err # "" THEN RowError(o2.sts)
                 ELSE [err |-> "", sts |-> o2.sts,
                       row |-> SetThird(<<row[1], o1.out, row[3]>>
                                           \o SubSeq(row, 4, Len(row)), o2.out)]
                 : o2 \in ApplyOnePanelRules(rs, o1.sts, 1, Clone(o1.out))}
           : o1 \in ApplyOnePanelRules(rs, sts, 1, Clone(row[1]))}

\* a faulty two-panel stage that keeps a column 3 the one-panel rules made
RowTwoPanelStageKeeping(rs, a) ==
    IF a.err # "" \/ TwoPanelRules(rs) = {} \/ OnePanelRules(rs) # {}
    THEN {a}
    ELSE {IF o.err # "" THEN RowError(o.sts)
          ELSE [err |-> "", sts |-> o.sts, row |-> SetThird(a.row, o.out)]
          : o \in ApplyTwoPanelRules(rs, a.sts, 1, Clone(a.row[1]), Clone(a.row[2]),
                                     NonePanel)}

\* generate(): the two-panel stage, column 3 from columns 1 and 2
RowTwoPanelStage(rs, a) ==
    IF a.err # "" \/ TwoPanelRules(rs) = {}
    THEN {a}
    ELSE {IF o.err # "" THEN RowError(o.sts)
          ELSE [err |-> "", sts |-> o.sts, row |-> SetThird(a.row, o.out)]
          : o \in ApplyTwoPanelRules(rs, a.sts, 1, Clone(a.row[1]), Clone(a.row[2]),
                                     NonePanel)}

\* RowGenerator.generate(seed_panels): the outcomes [err, sts, row]
RowGenerate(rs, sts, seeds) ==
    IF NotEnoughSeeds(Len(seeds), RequiredPanels(rs))
    THEN {[err |-> "InsufficientSeeds", sts |-> sts, row |-> <<>>]}
    ELSE UNION {RowTwoPanelStage(rs, a) :
                  a \in RowOnePanelStage(rs, sts, InitialRow(seeds))}

MaxSeeds == 4

MaxRowCalls == 2

RowRuleSets ==
    { <<MkRule("progression", "type", 1, 1)>>,
      <<MkRule("progression", "type", 1, 1), MkRule("progression", "angle", 1, 1)>>,
      <<MkRule("angle", "angle", 1, 1), MkRule("progression", "size", 1, 1)>>,
      <<MkRule("arithmetic", "size", 1, 2)>>,
      <<MkRule("angle", "angle", 1, 1), MkRule("progression", "size", 1, 1),
        MkRule("arithmetic", "size", 1, 2)>>,
      <<MkRule("constant", "type", 0, 1)>>,
      <<MkRule("arithmetic", "size", 1, 2), MkRule("arithmetic", "color", -1, 2)>>,
      <<MkRule("progression", "type", 1, 1), MkRule("arithmetic", "color", 1, 2),
        MkRule("arithmetic", "size", -1, 2)>> }

RowSeedPanels ==
    {EmptyPanel, OnePanel(5, Entity(1, 3, 0, 1)), OnePanel(5, Entity(3, 2, 4, 0))}

\* the seed lists handed to generate: the first two seeds, the only ones a rule
\* reads (row[0] and row[1]), range over the seed panels; the seeds after them
\* are only copied into the row, and are all the same panel
ExtraSeed == OnePanel(5, Entity(3, 2, 4, 0))

SeedLists ==
    UNION {[1..n -> RowSeedPanels] : n \in 0..2}
      \cup {s \o [k \in 1..n |-> ExtraSeed] :
               s \in [1..2 -> RowSeedPanels], n \in 1..(MaxSeeds - 2)}

RowInit ==
    /\ rules \in RowRuleSets
    /\ rstate = [k \in 1..Len(rules) |-> FreshState(rules[k])]
    /\ pc = "row"
    /\ panels = <<>>
    /\ last = NoCall
    /\ gen = GenIdle

\* row_generator.generate(seeds)
RowGenerateCall ==
    /\ pc = "row"
    /\ last.calls < MaxRowCalls
    /\ \E seeds \in SeedLists : \E o \in RowGenerate(rules, rstate, seeds) :
         /\ rstate' = o.sts
         /\ panels' = o.row
         /\ last' = [NoCall EXCEPT !.op = "generate", !.seeds = seeds,
                                   !.row = o.row, !.err = o.err, !.pre = rstate,
                                   !.calls = last.calls + 1,
                                   !.ok = IF o.err = "" THEN last.ok + 1 ELSE last.ok]
    /\ UNCHANGED <<rules, pc, gen>>

RowNext == RowGenerateCall

RowSpec == RowInit /\ [][RowNext]_vars

\* C4 (as stated): generate returns exactly three panels, column 1 is the
\* first seed; with only one-panel rules column 2 is the rule chain applied
\* to column 1 and column 3 the same chain applied to column 2; with only
\* two-panel rules and two seeds, columns 1 and 2 are the seeds and column 3
\* is the two-panel rule applied to them.
C4_RowShape ==
    (pc = "row" /\ last.op = "generate" /\ last.err = "") =>
        /\ Len(last.row) = 3
        /\ last.row[1] = last.seeds[1]
        /\ TwoPanelRules(rules) = {} =>
              \E o1 \in ApplyOnePanelRules(rules, last.pre, 1, last.row[1]) :
                 /\ o1.err = "" /\ last.row[2] = o1.out
                 /\ \E o2 \in ApplyOnePanelRules(rules, o1.sts, 1, last.row[2]) :
                       o2.err = "" /\ last.row[3] = o2.out
        /\ (OnePanelRules(rules) = {} /\ Len(last.seeds) = 2) =>
              /\ last.row[1] = last.seeds[1] /\ last.row[2] = last.seeds[2]
              /\ \E o \in ApplyTwoPanelRules(rules, last.pre, 1, last.row[1],
                                             last.row[2], NonePanel) :
                    o.err = "" /\ last.row[3] = o.out

\* C5: generate fails with the insufficient-seed error exactly when fewer
\* seeds are given than the largest required_panels of the rules, and that
\* failure leaves every rule's state as it was before the call.
C5_InsufficientSeeds ==
    (pc = "row" /\ last.op = "generate") =>
        /\ (Len(last.seeds) < RequiredPanels(rules)) =>
              (last.err = "InsufficientSeeds" /\ rstate = last.pre /\ last.row = <<>>)
        /\ (Len(last.seeds) >= RequiredPanels(rules)) =>
              last.err # "InsufficientSeeds"

\* one seed given to a rule set that needs two, while a rule holds state
\* left by an earlier call
C5_Witness ==
    /\ pc = "row" /\ last.op = "generate" /\ last.err = "InsufficientSeeds"
    /\ Len(last.seeds) = 1 /\ RequiredPanels(rules) = 2
    /\ last.pre[1].memory # <<>>

\* the rule set holds one-panel and two-panel rules
MixedArity == OnePanelRules(rules) # {} /\ TwoPanelRules(rules) # {}

\* the one-panel chains of a returned row: [second, third, sts] where second
\* is the chain applied to column 1 and third the chain applied to second
UnaryColumns ==
    UNION {{[second |-> o1.out, third |-> o2.out, sts |-> o2.sts] :
              o2 \in {x \in ApplyOnePanelRules(rules, o1.sts, 1, o1.out) : x.err = ""}}
           : o1 \in {x \in ApplyOnePanelRules(rules, last.pre, 1, last.seeds[1]) :
                       x.err = ""}}

LastTwoPanelRule == CHOOSE k \in TwoPanelRules(rules) : \A j \in TwoPanelRules(rules) : j <= k

\* a row was returned by a rule set with several two-panel rules
SeveralBinary ==
    /\ pc = "row" /\ last.op = "generate" /\ last.err = ""
    /\ Cardinality(TwoPanelRules(rules)) >= 2

\* every two-panel rule was applied to (column 1, column 2) and column 3 is
\* what the last of them returned
SamePairLastOutput ==
    /\ \A k \in TwoPanelRules(rules) :
          \E o \in Apply2(rules[k], last.pre[k], last.row[1], last.row[2]) :
             /\ o.err = "" /\ rstate[k] = o.st
             /\ k = LastTwoPanelRule => last.row[3] = o.out
    /\ Len(last.row) = Len(InitialRow(last.seeds))

ValueMapKeys(a) ==
    CASE a = "type" -> 1..TYPE_MAX_VAL
      [] a = "size" -> SIZE_MIN_VAL..SIZE_MAX_VAL
      [] a = "angle" -> ANGLE_MIN_VAL..ANGLE_MAX_VAL
      [] a = "color" -> COLOR_MIN_VAL..COLOR_MAX_VAL
      [] OTHER -> 0..1

\* Attribute.validate: the value must be a key of value_map
Validate(a, value) == value \in ValueMapKeys(a)

\* TensorPanel.set_attr(row, col, attr_name, value) on cell k
SetAttr(p, k, a, value) ==
    IF Validate(a, value)
    THEN [err |-> "", panel |-> [p EXCEPT !.cells[k][a] = value]]
    ELSE [err |-> "ValueError", panel |-> p]

\* the grid positions that random.sample is followed into
SampledPositions == {5}

Range(r) == r[1]..r[2]

\* a faulty entity loop that also fills one more cell than drawn
SamplePanelOnOverfull(cfg, positions) ==
    IF cfg.min_entities > cfg.max_entities
    THEN {[err |-> "ValueError", panel |-> EmptyPanel]}
    ELSE UNION {
           {[err |-> "",
             panel |-> [cells |-> [k \in Cells |->
                            IF k \in S THEN Entity(cfg.type[1], cfg.size[1],
                                                   cfg.angle[1], cfg.color[1])
                            ELSE EmptyEntity],
                        uniformity |-> FALSE]]
            : S \in {T \in SUBSET positions : Cardinality(T) = n + 1}}
           : n \in cfg.min_entities..cfg.max_entities}

\* ConstrainedPanelSampler.sample_panel: the outcomes [err, panel], with the
\* positions drawn by random.sample followed inside `positions`.  randint
\* raises on an empty range, random.sample on a count outside 0..9 and
\* set_attr on a value validate rejects.  A tensor panel carries no
\* uniformity flag; its layout counts as not uniform.
SamplePanelOn(cfg, positions) ==
    IF cfg.min_entities > cfg.max_entities
    THEN {[err |-> "ValueError", panel |-> EmptyPanel]}
    ELSE UNION {
           IF n < 0 \/ n > Cardinality(Cells)
           THEN {[err |-> "ValueError", panel |-> EmptyPanel]}
           ELSE UNION {
                  {IF \A k \in S : /\ f[k].type \in ValueMapKeys("type")
                                   /\ f[k].size \in ValueMapKeys("size")
                                   /\ f[k].angle \in ValueMapKeys("angle")
                                   /\ f[k].color \in ValueMapKeys("color")
                   THEN [err |-> "",
                         panel |-> [cells |-> [k \in Cells |->
                                        IF k \in S THEN f[k] ELSE EmptyEntity],
                                    uniformity |-> FALSE]]
                   ELSE [err |-> "ValueError", panel |-> EmptyPanel]
                   : f \in [S -> {Entity(t, z, g, c) :
                                    t \in Range(cfg.type), z \in Range(cfg.size),
                                    g \in Range(cfg.angle), c \in Range(cfg.color)}]}
                  : S \in {T \in SUBSET positions : Cardinality(T) = n}}
           : n \in cfg.min_entities..cfg.max_entities}

\* sample_panel as the puzzle generator's grid loop is followed
SamplePanel(cfg) == SamplePanelOn(cfg, SampledPositions)

\* generate(answer, count=7)
DistractorCount == 7

\* a faulty swap without the check for two entities: an entity changes
\* places with any other cell
SwapEntityAnyCell(p) ==
    IF Filled(p) = {} THEN {p}
    ELSE UNION {
           {[p EXCEPT !.cells = [p.cells EXCEPT ![k1] = p.cells[k2],
                                                ![k2] = p.cells[k1]]] :
              k2 \in Cells \ {k1}}
           : k1 \in Filled(p)}

\* DistractorGenerator._swap_entity
SwapEntity(p) ==
    IF Cardinality(Filled(p)) < 2 THEN {p}
    ELSE UNION {
           {[p EXCEPT !.cells = [p.cells EXCEPT ![k1] = p.cells[k2],
                                                ![k2] = p.cells[k1]]] :
              k2 \in Filled(p) \ {k1}}
           : k1 \in Filled(p)}

\* DistractorGenerator._remove_entity: only the exists flag is cleared
RemoveEntity(p, n) ==
    LET m == IF n < Cardinality(Filled(p)) THEN n ELSE Cardinality(Filled(p))
    IN {[p EXCEPT !.cells = [k \in Cells |->
             IF k \in S THEN [p.cells[k] EXCEPT !.exists = 0] ELSE p.cells[k]]] :
          S \in {T \in SUBSET Filled(p) : Cardinality(T) = m}}

\* DistractorGenerator._reflect_panel: rows or columns mirrored
ReflectPanel(p) ==
    { [p EXCEPT !.cells = [k \in Cells |->
          p.cells[CellOf(GridSize - 1 - RowOf(k), ColOf(k))]]],
      [p EXCEPT !.cells = [k \in Cells |->
          p.cells[CellOf(RowOf(k), GridSize - 1 - ColOf(k))]]] }

\* the permutations `indices` that random.shuffle is followed into: every
\* rotation of 1..n and the reversal
ShuffleOutcomes(n) ==
    {[j \in 1..n |-> ((j - 1 + d) % n) + 1] : d \in 0..(n - 1)}
    \cup {[j \in 1..n |-> n + 1 - j]}

\* the k-th element (from 1) of a set of cells in row-major order
Nth(S, i) == CHOOSE k \in S : Cardinality({j \in S : j < k}) = i - 1

\* DistractorGenerator.difficulty in tenths: hard 0.2, medium 0.5, easy 0.8
HardDifficulty == 2
MediumDifficulty == 5
EasyDifficulty == 8

Max(a, b) == IF a > b THEN a ELSE b
Min(a, b) == IF a < b THEN a ELSE b

\* outcome of a strategy method: err = "" when it returned the panel `out`
StrategyRet(out) == [err |-> "", out |-> out]
StrategyRaise(p, e) == [err |-> e, out |-> p]

\* how many of the candidate values random.choice is followed into
PerturbWidth == 1

\* panel_utils.perturb_attribute: possible_values, the range of the attribute
\* without the current value, in ascending order
PossibleValues(a, current) ==
    LET range == AttrMin(a)..AttrMax(a)
    IN IF current \in range /\ Cardinality(range) > 1 THEN range \ {current}
       ELSE range

PerturbValues(a, current) ==
    {v \in PossibleValues(a, current) :
        Cardinality({w \in PossibleValues(a, current) : w < v}) < PerturbWidth}

PerturbedAttributes == {"type", "size", "angle", "color"}

\* panel_utils.perturb_attribute(panel) on a panel with an entity: one
\* attribute of one entity gets another value, written without validation
PerturbOnce(p) ==
    UNION {{[p EXCEPT !.cells[k][a] = v] : v \in PerturbValues(a, p.cells[k][a])} :
             k \in Filled(p), a \in PerturbedAttributes}

\* the panels reached from those of S by n perturbations in a row
RECURSIVE PerturbTimes(_, _)
PerturbTimes(S, n) ==
    IF n = 0 THEN S
    ELSE PerturbTimes(UNION {PerturbOnce(q) : q \in S}, n - 1)

\* DistractorGenerator._perturb_attribute: perturb_attribute raises ValueError
\* on a panel without entities
PerturbAttribute(p, n) ==
    IF n > 0 /\ Filled(p) = {}
    THEN {StrategyRaise(p, "ValueError")}
    ELSE {StrategyRet(q) : q \in PerturbTimes({Clone(p)}, n)}

\* entity_utils.sample_entity_tensor: the sampled entities followed
SampleEntityTensor == ResampledEntities

\* a faulty addition that draws its positions from all cells
AddEntityAnywhere(p, n) ==
    UNION {
      {[p EXCEPT !.cells = [k \in Cells |-> IF k \in S THEN f[k] ELSE p.cells[k]]] :
         f \in [S -> SampleEntityTensor]}
      : S \in {T \in SUBSET Cells : Cardinality(T) = Min(n, Cardinality(Cells))}}

\* DistractorGenerator._add_entity: sampled entities written to empty cells
AddEntity(p, n) ==
    LET empty == Cells \ Filled(p)
        m == Min(n, Cardinality(empty))
    IN UNION {
         {[p EXCEPT !.cells = [k \in Cells |-> IF k \in S THEN f[k] ELSE p.cells[k]]] :
            f \in [S -> SampleEntityTensor]}
         : S \in {T \in SUBSET empty : Cardinality(T) = m}}

\* change = change_amount * change_direction
GlobalChanges == {amount * dir : amount \in 1..3, dir \in {-1, 1}}

\* a faulty wrap that leaves out the step back into the range
GlobalValueUnfolded(a, current, change) ==
    (current + change) % (AttrMax(a) + 1)

\* the value _global_attribute_change writes for a current value
GlobalValue(a, current, change) ==
    LET wrapped == (current + change) % (AttrMax(a) + 1)
    IN IF wrapped < AttrMin(a) THEN AttrMax(a) - (AttrMin(a) - wrapped - 1)
       ELSE wrapped

\* DistractorGenerator._global_attribute_change
GlobalAttributeChange(p) ==
    IF Filled(p) = {} THEN {StrategyRet(Clone(p))}
    ELSE {IF \A k \in Filled(p) : Validate(a, GlobalValue(a, p.cells[k][a], amount * dir))
          THEN StrategyRet([p EXCEPT !.cells = [k \in Cells |->
                   IF k \in Filled(p)
                   THEN [p.cells[k] EXCEPT ![a] = GlobalValue(a, p.cells[k][a], amount * dir)]
                   ELSE p.cells[k]]])
          ELSE StrategyRaise(p, "ValueError")
          : a \in PerturbedAttributes, amount \in 1..3, dir \in {-1, 1}}

\* the increments _rotate_all_entities chooses from
Rotations == {2, 3, 4, 6}

\* DistractorGenerator._rotate_all_entities
RotateAllEntities(p) ==
    {[p EXCEPT !.cells = [k \in Cells |->
         IF k \in Filled(p)
         THEN [p.cells[k] EXCEPT !.angle = (p.cells[k].angle + rotation) % NumAngles]
         ELSE p.cells[k]]] : rotation \in Rotations}

\* DistractorGenerator._scramble_positions: entities and positions are
\* shuffled separately and zipped into a zeroed tensor
ScramblePositions(p) ==
    LET F == Filled(p)
        n == Cardinality(F)
    IN IF n <= 1 THEN {Clone(p)}
       ELSE {[p EXCEPT !.cells = [k \in Cells |->
                IF k \in F
                THEN LET i == CHOOSE j \in 1..n : Nth(F, positions[j]) = k
                     IN p.cells[Nth(F, entities[i])]
                ELSE EmptyEntity]] :
               entities \in ShuffleOutcomes(n), positions \in ShuffleOutcomes(n)}

\* the sets of n disjoint pairs {pos1, pos2} of positions that the draws
\* without replacement of _swap_attributes can end with (n is at most half
\* the number of positions); the order of the draws does not show in the
\* result
RECURSIVE SwapPairs(_, _)
SwapPairs(available, n) ==
    IF n = 0 THEN {{}}
    ELSE LET pos1 == Nth(available, 1)
         IN UNION {{pairs \cup {{pos1, pos2}} :
                      pairs \in SwapPairs(available \ {pos1, pos2}, n - 1)} :
                   pos2 \in available \ {pos1}}
            \cup (IF Cardinality(available) - 1 >= 2 * n
                  THEN SwapPairs(available \ {pos1}, n) ELSE {})

\* DistractorGenerator._swap_attributes at difficulty d
SwapAttributes(p, d) ==
    LET F == Filled(p)
        num_swaps == Min(Cardinality(F) \div 2, 2 + ((d * 3) \div 10))
    IN IF Cardinality(F) < 2 THEN {StrategyRet(Clone(p))}
       ELSE {IF \A k \in F : Validate(a, p.cells[k][a])
             THEN StrategyRet([p EXCEPT !.cells = [k \in Cells |->
                      IF \E pair \in pairs : k \in pair
                      THEN LET pair == CHOOSE x \in pairs : k \in x
                               other == CHOOSE j \in pair : j # k
                           IN [p.cells[k] EXCEPT ![a] = p.cells[other][a]]
                      ELSE p.cells[k]]])
             ELSE StrategyRaise(p, "ValueError")
             : a \in PerturbedAttributes, pairs \in SwapPairs(F, num_swaps)}

\* the strategies of the three tiers
Strategies ==
    {"attribute_perturb", "entity_swap",
     "global_attribute_change", "rotate_all_entities", "swap_attributes",
     "entity_add", "entity_remove",
     "reflect_panel", "scramble_positions"}

\* self.strategies_by_difficulty with swap_attributes moved to the hard list
StrategiesByDifficultyFlat ==
    [hard |-> <<"attribute_perturb", "entity_swap", "swap_attributes">>,
     medium |-> <<"global_attribute_change", "rotate_all_entities",
                  "entity_add", "entity_remove">>,
     easy |-> <<"reflect_panel", "scramble_positions">>]

\* self.strategies_by_difficulty
StrategiesByDifficulty ==
    [hard |-> <<"attribute_perturb", "entity_swap">>,
     medium |-> <<"global_attribute_change", "rotate_all_entities",
                  "swap_attributes", "entity_add", "entity_remove">>,
     easy |-> <<"reflect_panel", "scramble_positions">>]

Tiers == {"hard", "medium", "easy"}

\* self.difficulty_mapping.get(difficulty, 0.5), in tenths
DifficultyMapping(name) ==
    CASE name = "easy" -> EasyDifficulty
      [] name = "medium" -> MediumDifficulty
      [] name = "hard" -> HardDifficulty
      [] OTHER -> MediumDifficulty

\* _get_difficulty_level: the thresholds 0.3 and 0.7, in tenths
GetDifficultyLevel(d) ==
    IF d <= 3 THEN "hard" ELSE IF d <= 7 THEN "medium" ELSE "easy"

\* _calculate_strategy_weights, in hundredths
CalculateStrategyWeights(level) ==
    CASE level = "hard" -> [hard |-> 70, medium |-> 25, easy |-> 5]
      [] level = "medium" -> [hard |-> 30, medium |-> 50, easy |-> 20]
      [] OTHER -> [hard |-> 5, medium |-> 35, easy |-> 60]

\* the strategy methods that write into the tensor of the panel they are
\* handed and return a panel on that tensor
WritesArgument(strategy) == strategy \in {"entity_swap", "entity_remove", "entity_add"}

\* the strategy method for `strategy` called on panel q at difficulty d
StrategyResults(q, strategy, d) ==
    CASE strategy = "attribute_perturb" -> PerturbAttribute(q, Max(1, (d * 5) \div 10))
      [] strategy = "entity_swap" -> {StrategyRet(x) : x \in SwapEntity(q)}
      [] strategy = "entity_remove" ->
            {StrategyRet(x) : x \in RemoveEntity(q, Max(1, (d * 2) \div 10))}
      [] strategy = "entity_add" ->
            {StrategyRet(x) : x \in AddEntity(q, Max(1, (d * 2) \div 10))}
      [] strategy = "reflect_panel" -> {StrategyRet(x) : x \in ReflectPanel(q)}
      [] strategy = "global_attribute_change" -> GlobalAttributeChange(q)
      [] strategy = "rotate_all_entities" -> {StrategyRet(x) : x \in RotateAllEntities(q)}
      [] strategy = "scramble_positions" -> {StrategyRet(x) : x \in ScramblePositions(q)}
      [] strategy = "swap_attributes" -> SwapAttributes(q, d)
      [] OTHER -> {StrategyRet(q)}

\* a faulty apply_strategy that hands the strategy method the caller's panel
\* instead of a clone
ApplyStrategyNoClone(p, strategy, d) ==
    {[err |-> o.err,
      answer |-> IF WritesArgument(strategy) /\ o.err = "" THEN o.out ELSE p,
      out |-> o.out,
      aliased |-> WritesArgument(strategy)] : o \in StrategyResults(p, strategy, d)}

\* DistractorGenerator.apply_strategy at difficulty d: the outcomes
\* [err, answer, out, aliased], answer being the caller's panel after the call
\* and aliased telling whether `out` shares its tensor with it.  The method
\* works on result = panel.clone(), so what a strategy writes into its
\* argument lands in the clone.
ApplyStrategyAt(p, strategy, d) ==
    {[err |-> o.err, answer |-> p, out |-> o.out, aliased |-> FALSE] :
        o \in StrategyResults(Clone(p), strategy, d)}

\* the strategies followed when whole puzzles are generated, one from each
\* difficulty tier
ExploredStrategies == {"entity_swap", "entity_remove", "reflect_panel"}

\* DistractorGenerator.apply_strategy at the default difficulty: the panels
\* it can return
ApplyStrategy(p, strategy) ==
    {o.out : o \in {x \in ApplyStrategyAt(p, strategy, MediumDifficulty) : x.err = ""}}

\* DistractorGenerator.generate: the lists of `count` distractors
GenerateDistractors(answer, count) ==
    [1..count -> UNION {ApplyStrategy(answer, s) : s \in ExploredStrategies}]

\* a faulty lookup that assumes the answer stays in front
TargetIndexUnshuffled(indices) == 0

\* target_idx = indices.index(0)
TargetIndex(indices) ==
    (CHOOSE j \in 1..Len(indices) : indices[j] = 1) - 1

\* ------------------------------------------------------------------------
\* PuzzleGenerator (core/generators/puzzle_generator.py)
\* ------------------------------------------------------------------------
\* a loaded configuration: constraints and the rules built from it once, by
\* load_config
Config(rs, lo, hi, type) ==
    [rules |-> rs, min_entities |-> lo, max_entities |-> hi, type |-> type,
     size |-> <<2, 2>>, angle |-> <<0, 0>>, color |-> <<1, 1>>]

ImpossibleConfig == Config(<<MkRule("progression", "type", 1, 1)>>, 2, 1, <<2, 2>>)

ProgressionConfig == Config(<<MkRule("progression", "type", 1, 1)>>, 1, 1, <<2, 3>>)

\* the rule set of test_row_generator.py, up to its first angle rule
TwoProgressionsConfig ==
    Config(<<MkRule("progression", "type", 1, 1),
             MkRule("progression", "angle", 1, 1)>>, 1, 1, <<2, 2>>)

DistributeConfig == Config(<<MkRule("distribute_three", "type", 0, 1)>>, 1, 1, <<2, 2>>)

DistributeEmptyConfig ==
    Config(<<MkRule("distribute_three", "type", 0, 1),
             MkRule("progression", "size", 1, 1)>>, 0, 0, <<2, 2>>)

ArithmeticConfig == Config(<<MkRule("arithmetic", "size", 1, 2)>>, 1, 1, <<2, 2>>)

ConstantConfig == Config(<<MkRule("constant", "type", 0, 1)>>, 0, 1, <<2, 2>>)

\* the calls generate(num_puzzles, max_attempts_per_puzzle) followed, each
\* with the configuration loaded before it
GenSetups ==
    { <<ProgressionConfig, <<0, 1>>>>, <<ProgressionConfig, <<1, 0>>>>,
      <<ProgressionConfig, <<1, 1>>>>, <<ProgressionConfig, <<2, 2>>>>,
      <<TwoProgressionsConfig, <<1, 2>>>>, <<TwoProgressionsConfig, <<2, 2>>>>,
      <<DistributeConfig, <<1, 1>>>>,
      <<DistributeEmptyConfig, <<1, 2>>>>,
      <<ArithmeticConfig, <<1, 2>>>>, <<ArithmeticConfig, <<2, 2>>>>,
      <<ArithmeticConfig, <<0, 2>>>>,
      <<ConstantConfig, <<1, 1>>>>, <<ConstantConfig, <<2, 1>>>>,
      <<ImpossibleConfig, <<1, 2>>>>, <<ImpossibleConfig, <<5, 10>>>> }

\* tensor_to_aot(tensor): one entity per cell whose exists flag is 1, in
\* row-major order, named by its position index and carrying the four
\* attribute levels; the other cells leave no trace
tensor_to_aot(p) ==
    [i \in 1..Cardinality(Filled(p)) |->
        LET k == Nth(Filled(p), i)
        IN [position |-> k - 1, type |-> p.cells[k].type, size |-> p.cells[k].size,
            angle |-> p.cells[k].angle, color |-> p.cells[k].color]]

\* a faulty context loop that does not skip the bottom-right panel
ContextWithAnswer(grid) ==
    [n \in 1..(GridSize * GridSize) |-> tensor_to_aot(grid[n])]

\* "for row in range(3): for col in range(3): if not (row == 2 and col == 2):
\* context.append(grid[row][col].to_aot().raw)"
Context(grid) ==
    [n \in 1..(GridSize * GridSize - 1) |-> tensor_to_aot(grid[n])]

\* no puzzle packaged yet in the current attempt
NoPuzzle == [context |-> <<>>, candidates |-> <<>>, target |-> 0]

GenStart(cfg, req) ==
    [phase |-> "generate", cfg |-> cfg, N |-> req[1], M |-> req[2],
     i |-> 0, attempt |-> 0, total |-> 0, successful |-> 0, failed |-> 0,
     numPuzzles |-> 0, row |-> 0, candidates |-> <<>>, target |-> 0,
     distractors |-> <<>>, puzzle |-> NoPuzzle]

GenInit ==
    /\ gen \in {GenStart(s[1], s[2]) : s \in GenSetups}
    /\ rules = gen.cfg.rules
    /\ rstate = [k \in 1..Len(rules) |-> FreshState(rules[k])]
    /\ pc = "attempt"
    /\ panels = <<>>
    /\ last = NoCall

\* a faulty except branch that forgets to count the failure
AfterFailureUncounted(g) ==
    IF g.attempt + 1 >= g.M
    THEN [g EXCEPT !.i = g.i + 1, !.attempt = 0, !.row = 0]
    ELSE [g EXCEPT !.attempt = g.attempt + 1, !.row = 0]

\* the except branch of an attempt, then the loop headers: the next attempt
\* of this puzzle, or the next puzzle once the attempts are used up
AfterFailure(g) ==
    IF g.attempt + 1 >= g.M
    THEN [g EXCEPT !.failed = g.failed + 1, !.i = g.i + 1, !.attempt = 0, !.row = 0]
    ELSE [g EXCEPT !.failed = g.failed + 1, !.attempt = g.attempt + 1, !.row = 0]

\* "for i ...: for attempt ...: attempt_stats['total'] += 1", entering
\* _generate_grid; the model keeps the puzzle of the current attempt only
GenStartAttempt ==
    /\ pc = "attempt"
    /\ gen.i < gen.N /\ gen.attempt < gen.M
    /\ gen' = [gen EXCEPT !.total = gen.total + 1, !.row = 0,
                          !.candidates = <<>>, !.target = 0,
                          !.distractors = <<>>, !.puzzle = NoPuzzle]
    /\ panels' = <<>>
    /\ pc' = "grid_row"
    /\ UNCHANGED <<rules, rstate, last>>

\* one pass of the loop of _generate_grid: sample a seed and generate its row
GenRow ==
    /\ pc = "grid_row"
    /\ \E sp \in SamplePanel(gen.cfg) :
         IF sp.err # ""
         THEN /\ gen' = AfterFailure(gen)
              /\ panels' = <<>>
              /\ pc' = "attempt"
              /\ UNCHANGED rstate
         ELSE \E o \in RowGenerate(rules, rstate, <<sp.panel>>) :
                /\ rstate' = o.sts
                /\ IF o.err # ""
                   THEN /\ gen' = AfterFailure(gen)
                        /\ panels' = <<>>
                        /\ pc' = "attempt"
                   ELSE /\ gen' = [gen EXCEPT !.row = gen.row + 1]
                        /\ panels' = panels \o o.row
                        /\ pc' = IF gen.row + 1 = GridSize THEN "distract" ELSE "grid_row"
    /\ UNCHANGED <<rules, last>>

\* answer = grid[2][2]; candidates = [answer] + distractors
GenDistract ==
    /\ pc = "distract"
    /\ \E ds \in GenerateDistractors(panels[Len(panels)], DistractorCount) :
         gen' = [gen EXCEPT !.candidates = <<panels[Len(panels)]>> \o ds,
                            !.distractors = ds]
    /\ pc' = "shuffle"
    /\ UNCHANGED <<rules, rstate, panels, last>>

\* shuffle, look up the answer, convert the context and the candidates,
\* append the puzzle, count the success, break
GenShuffle ==
    /\ pc = "shuffle"
    /\ \E indices \in ShuffleOutcomes(Len(gen.candidates)) :
         gen' = [gen EXCEPT !.candidates = [j \in 1..Len(indices) |->
                                               gen.candidates[indices[j]]],
                            !.target = TargetIndex(indices),
                            !.puzzle = [context |-> Context(panels),
                                        candidates |-> [j \in 1..Len(indices) |->
                                            tensor_to_aot(gen.candidates[indices[j]])],
                                        target |-> TargetIndex(indices)],
                            !.numPuzzles = gen.numPuzzles + 1,
                            !.successful = gen.successful + 1,
                            !.i = gen.i + 1, !.attempt = 0]
    /\ pc' = "attempt"
    /\ UNCHANGED <<rules, rstate, panels, last>>

\* the statistics after the loops: the success rate divides by the total
GenStats ==
    /\ pc = "attempt"
    /\ gen.i >= gen.N \/ gen.M = 0
    /\ pc' = IF gen.total = 0 THEN "raised" ELSE "returned"
    /\ UNCHANGED <<rules, rstate, panels, last, gen>>

GenNext == GenStartAttempt \/ GenRow \/ GenDistract \/ GenShuffle \/ GenStats

GenSpec == GenInit /\ [][GenNext]_vars

\* C1 (as stated): whenever generate is about to build row i of an attempt,
\* every memory-based rule has an empty memory, every progression rule has
\* its first-column flag set and every distribute-three counter equals 2*i,
\* whatever happened in earlier rows, attempts and puzzles.
C1_RowStartState ==
    (gen.phase = "generate" /\ pc = "grid_row") =>
        \A k \in 1..Len(rules) :
            /\ rules[k].kind \in {"arithmetic", "angle"} => rstate[k].memory = <<>>
            /\ rules[k].kind = "progression" => rstate[k].first_col
            /\ rules[k].kind = "distribute_three" => rstate[k].count = 2 * gen.row

\* C6 (as stated): generate(N, M) never raises and never holds more than N
\* puzzles, for every N >= 0 and M >= 0.
C6_NeverRaises ==
    gen.phase = "generate" => (pc # "raised" /\ gen.numPuzzles <= gen.N)

\* C7: when generate(N, M) reaches its end, total = successful + failed,
\* successful = number of puzzles, total <= N*M, and with no success
\* total = N*M and the list is empty; with N = 5, M = 10 and
\* min_entities > max_entities that is 50 attempts, 0 successes, no puzzle.
C7_Counters ==
    (gen.phase = "generate" /\ pc \in {"returned", "raised"}) =>
        /\ gen.total = gen.successful + gen.failed
        /\ gen.successful = gen.numPuzzles
        /\ gen.total <= gen.N * gen.M
        /\ gen.successful = 0 => (gen.total = gen.N * gen.M /\ gen.numPuzzles = 0)
        /\ (gen.cfg = ImpossibleConfig /\ gen.N = 5 /\ gen.M = 10) =>
              (pc = "returned" /\ gen.total = 50 /\ gen.successful = 0
                 /\ gen.failed = 50 /\ gen.numPuzzles = 0)

\* the batch of 5 puzzles with 10 attempts each has ended without a puzzle
C7_Witness ==
    /\ gen.phase = "generate" /\ pc = "returned"
    /\ gen.N = 5 /\ gen.M = 10 /\ gen.total = 50 /\ gen.failed = 50

\* the candidates of the puzzle just appended that equal the answer
AnswerCopies == {j \in 1..Len(gen.candidates) : gen.candidates[j] = panels[Len(panels)]}

PuzzleAppended ==
    /\ gen.phase = "generate" /\ pc \in {"attempt", "returned"}
    /\ gen.candidates # <<>>

Unshuffled == <<panels[Len(panels)]>> \o gen.distractors

\* C31: every puzzle has exactly 8 context panels, the grid panels at (0,0),
\* (0,1), (0,2), (1,0), (1,1), (1,2), (2,0), (2,1) in that order; the answer
\* is the grid panel at (2,2), which the context leaves out; the candidate
\* list has exactly 8 entries and is a permutation of the answer followed by
\* the 7 distractors.
C31_PuzzleLayout ==
    PuzzleAppended =>
        /\ Len(panels) = GridSize * GridSize
        /\ Len(gen.puzzle.context) = 8
        /\ \A r \in 0..2, c \in 0..2 :
              ~(r = 2 /\ c = 2) =>
                 gen.puzzle.context[3 * r + c + 1] = tensor_to_aot(panels[3 * r + c + 1])
        /\ gen.puzzle.candidates[gen.puzzle.target + 1] = tensor_to_aot(panels[9])
        /\ Len(gen.distractors) = 7
        /\ Len(gen.puzzle.candidates) = 8
        /\ LET converted == [i \in 1..Len(Unshuffled) |-> tensor_to_aot(Unshuffled[i])]
           IN \A v \in {gen.puzzle.candidates[j] : j \in 1..8} :
                 Cardinality({i \in 1..8 : gen.puzzle.candidates[i] = v})
                   = Cardinality({i \in 1..8 : converted[i] = v})

\* a puzzle whose rows progress, whose answer was shuffled to position 2 and
\* whose distractors are not all equal to the answer
C31_Witness ==
    /\ PuzzleAppended
    /\ gen.puzzle.target = 2
    /\ gen.puzzle.context[7] # gen.puzzle.context[8]
    /\ gen.puzzle.context[8] # tensor_to_aot(panels[9])
    /\ tensor_to_aot(panels[9]) # <<>>
    /\ \E j \in 1..8 : gen.puzzle.candidates[j] # tensor_to_aot(panels[9])

\* ------------------------------------------------------------------------
\* Attribute.next_value (core/aot/attributes.py)
\* ------------------------------------------------------------------------
AttrNames == {"exists", "type", "size", "angle", "color"}

\* largest step tried, in either direction
MaxStep == 11

\* the values next_value is called with: the declared range and the value
\* levels validate accepts, which are the ones set_attr stores
CallValues(a) == (AttrMin(a)..AttrMax(a)) \cup ValueMapKeys(a)

\* the arguments of one call: an attribute, a value and a step
AttrInit ==
    /\ rules = <<>>
    /\ rstate = <<>>
    /\ pc = "attr"
    /\ panels = <<>>
    /\ \E a \in AttrNames : \E v \in CallValues(a) : \E s \in (-MaxStep)..MaxStep :
         last = [NoCall EXCEPT !.op = "arguments", !.attr = a, !.value = v, !.step = s]
    /\ gen = GenIdle

\* r = attr.next_value(v, step)
NextValueCall ==
    /\ pc = "attr"
    /\ last.op = "arguments"
    /\ last' = [last EXCEPT !.op = "next_value",
                            !.result = NextValue(last.attr, last.value, last.step)]
    /\ UNCHANGED <<rules, rstate, pc, panels, gen>>

\* attr.next_value(r, -step) on the value the last call returned
NextValueBack ==
    /\ pc = "attr"
    /\ last.op = "next_value"
    /\ last' = [last EXCEPT !.op = "next_value_back",
                            !.back = NextValue(last.attr, last.result, -last.step)]
    /\ UNCHANGED <<rules, rstate, pc, panels, gen>>

AttrNext == NextValueCall \/ NextValueBack

AttrSpec == AttrInit /\ [][AttrNext]_vars

\* C14: for a value inside [min_val, max_val] and any step, next_value
\* returns min_val + ((v - min_val + step) mod range_size): a value inside
\* [min_val, max_val] that differs from v + step by a multiple of range_size
\* (it wraps, it does not clamp).
C14_NextValueWraps ==
    (pc = "attr" /\ last.op = "next_value"
       /\ last.value \in AttrMin(last.attr)..AttrMax(last.attr)) =>
        LET lo == AttrMin(last.attr)
            hi == AttrMax(last.attr)
            range_size == hi - lo + 1
        IN /\ last.result \in lo..hi
           /\ (last.result - (last.value + last.step)) % range_size = 0
           /\ last.result = lo + ((last.value - lo + last.step) % range_size)

\* a call that wraps more than once below the minimum
C14_Witness ==
    /\ pc = "attr" /\ last.op = "next_value" /\ last.attr = "type"
    /\ last.value = TYPE_MIN_VAL
    /\ last.value + last.step < TYPE_MIN_VAL - (TYPE_MAX_VAL - TYPE_MIN_VAL + 1)
    /\ last.result \in TYPE_MIN_VAL..TYPE_MAX_VAL

\* C15 (as stated): for every value that may be stored for an attribute and
\* every step, next_value(next_value(v, step), -step) = v.
C15_RoundTrip ==
    (pc = "attr" /\ last.op = "next_value_back"
       /\ last.value \in ValueMapKeys(last.attr)) =>
        last.back = last.value

\* ------------------------------------------------------------------------
\* TensorPanel.set_attr (core/aot/tensor_panel.py)
\* ------------------------------------------------------------------------
\* number of set_attr calls made on one panel
MaxSetCalls == 2

\* the values handed to set_attr: the declared range, the keys of value_map
\* and the integers next to them
SetValues(a) ==
    LET S == CallValues(a)
    IN S \cup {v - 1 : v \in S} \cup {v + 1 : v \in S}

SetCells == {CellOf(0, 0), CellOf(1, 1)}

TensorInit ==
    /\ rules = <<>>
    /\ rstate = <<>>
    /\ pc = "tensor"
    /\ panels = <<EmptyPanel>>
    /\ last = NoCall
    /\ gen = GenIdle

\* panel.set_attr(row, col, attr_name, value)
SetAttrCall ==
    /\ pc = "tensor"
    /\ last.calls < MaxSetCalls
    /\ \E k \in SetCells : \E a \in AttrNames : \E v \in SetValues(a) :
         LET o == SetAttr(panels[1], k, a, v)
         IN /\ panels' = <<o.panel>>
            /\ last' = [NoCall EXCEPT !.op = "set_attr", !.cell = k, !.attr = a,
                                      !.value = v, !.err = o.err,
                                      !.before = panels[1], !.out = o.panel,
                                      !.calls = last.calls + 1]
    /\ UNCHANGED <<rules, rstate, pc, gen>>

TensorNext == SetAttrCall

TensorSpec == TensorInit /\ [][TensorNext]_vars

\* C16 (as stated): set_attr stores the value exactly when it lies in the
\* attribute's declared range [min_val, max_val]; otherwise it raises and
\* the panel is unchanged.  So every value stored through set_attr lies
\* inside [min_val, max_val].
C16_SetAttrInRange ==
    (pc = "tensor" /\ last.op = "set_attr") =>
        LET inRange == last.value \in AttrMin(last.attr)..AttrMax(last.attr)
        IN /\ (last.err = "") <=> inRange
           /\ (last.err = "") =>
                 last.out = [last.before EXCEPT !.cells[last.cell][last.attr] = last.value]
           /\ (last.err # "") => last.out = last.before

\* ------------------------------------------------------------------------
\* Distractors made from an answer panel (DistractorGenerator)
\* ------------------------------------------------------------------------
\* the largest count handed to generate
MaxCount == 2

\* six entities in the first two rows (get_random_panel(n_entities=6))
SixPanel ==
    [cells |-> [k \in Cells |->
        IF k <= 6 THEN Entity(TYPE_MIN_VAL + (k % 4), k % 6, k % 8, k) ELSE EmptyEntity],
     uniformity |-> FALSE]

\* nine equal entities
FullPanel == [cells |-> [k \in Cells |-> Entity(3, 2, 4, 0)], uniformity |-> FALSE]

\* two equal entities in the first column, mirrored by the middle row
MirroredPanel ==
    TwoPanel(CellOf(0, 0), Entity(4, 2, 0, 1), CellOf(2, 0), Entity(4, 2, 0, 1), FALSE)

SmallAnswers ==
    { EmptyPanel,
      OnePanel(CellOf(1, 1), Entity(3, 2, 4, 0)),
      OnePanel(CellOf(0, 2), Entity(5, 5, 7, 9)),
      MirroredPanel,
      TwoPanel(CellOf(0, 0), Entity(2, 1, 0, 3), CellOf(1, 2), Entity(5, 5, 7, 9), FALSE) }

\* the answer panels and the difficulty names the generator is constructed
\* with ("expert" is not a key of difficulty_mapping)
DistractorSetups ==
    {[answer |-> p, difficulty |-> d] :
        p \in SmallAnswers \cup {SixPanel}, d \in {"hard", "medium"}}
    \cup {[answer |-> p, difficulty |-> d] :
             p \in {q \in SmallAnswers : Cardinality(Filled(q)) <= 1},
             d \in {"easy", "expert"}}
    \cup {[answer |-> FullPanel, difficulty |-> "hard"]}

DistractorInit ==
    /\ rules = <<>>
    /\ rstate = <<>>
    /\ pc = "distractor"
    /\ \E setup \in DistractorSetups :
         /\ panels = <<setup.answer>>
         /\ gen = [answer |-> setup.answer, name |-> setup.difficulty,
                   difficulty |-> DifficultyMapping(setup.difficulty),
                   count |-> 0, n |-> 0]
    /\ last = NoCall

\* the record of one apply_strategy call with outcome o
StrategyRecord(op, strategy, o) ==
    [NoCall EXCEPT !.op = op, !.attr = strategy, !.before = panels[1],
                   !.after = o.answer, !.out = o.out, !.err = o.err,
                   !.aliased = o.aliased]

\* generator.apply_strategy(answer, strategy)
ApplyStrategyCall ==
    /\ pc = "distractor"
    /\ \E strategy \in Strategies :
         \E o \in ApplyStrategyAt(panels[1], strategy, gen.difficulty) :
           /\ panels' = IF o.err = "" THEN <<o.answer, o.out>> ELSE <<o.answer>>
           /\ last' = StrategyRecord("apply_strategy", strategy, o)
    /\ pc' = "applied"
    /\ UNCHANGED <<rules, rstate, gen>>

\* the caller writes into the tensor of the distractor it was given: the
\* exists flag of the first cell is flipped.  A panel on the same tensor
\* shows the write as well.
DistractorWrite ==
    /\ pc = "applied"
    /\ last.err = ""
    /\ LET k == CellOf(0, 0)
           written == [panels[2] EXCEPT !.cells[k].exists = 1 - panels[2].cells[k].exists]
       IN panels' = IF last.aliased THEN <<written, written>>
                    ELSE <<panels[1], written>>
    /\ pc' = "written"
    /\ UNCHANGED <<rules, rstate, last, gen>>

\* generator.generate(answer, count): distractors = []
GenerateCall ==
    /\ pc = "distractor"
    /\ \E count \in 0..MaxCount : gen' = [gen EXCEPT !.count = count, !.n = 0]
    /\ last' = [NoCall EXCEPT !.op = "generate"]
    /\ pc' = "generate"
    /\ UNCHANGED <<rules, rstate, panels>>

\* one round of generate's loop: a tier is drawn by weight (every weight is
\* positive), a strategy from the tier, and the distractor apply_strategy
\* returns is appended.  The list is kept as its length gen.n.
GenerateStep ==
    /\ pc = "generate"
    /\ gen.n < gen.count
    /\ \E category \in {c \in Tiers :
            CalculateStrategyWeights(GetDifficultyLevel(gen.difficulty))[c] > 0} :
       \E i \in 1..Len(StrategiesByDifficulty[category]) :
         \E o \in ApplyStrategyAt(panels[1], StrategiesByDifficulty[category][i],
                                  gen.difficulty) :
           /\ last' = [NoCall EXCEPT !.op = "generate",
                                     !.attr = StrategiesByDifficulty[category][i],
                                     !.tier = category,
                                     !.before = panels[1], !.after = o.answer,
                                     !.err = o.err, !.aliased = o.aliased]
           /\ panels' = <<o.answer>>
           /\ IF o.err = ""
              THEN gen' = [gen EXCEPT !.n = gen.n + 1] /\ pc' = "generate"
              ELSE gen' = gen /\ pc' = "raised"
    /\ UNCHANGED <<rules, rstate>>

\* return distractors
GenerateReturn ==
    /\ pc = "generate"
    /\ gen.n = gen.count
    /\ pc' = "returned"
    /\ UNCHANGED <<rules, rstate, panels, last, gen>>

DistractorNext ==
    \/ ApplyStrategyCall
    \/ DistractorWrite
    \/ GenerateCall
    \/ GenerateStep
    \/ GenerateReturn

DistractorSpec == DistractorInit /\ [][DistractorNext]_vars

\* C24 (as stated): generate(answer, count) returns a list of exactly count
\* panels without raising, for every difficulty, every count >= 0, every
\* sequence of tier and strategy draws and every answer panel with 0 to 9
\* entities.
C24_GenerateReturnsCount ==
    /\ pc # "raised"
    /\ (pc = "returned") => gen.n = gen.count

\* C25 (as stated): for a panel with at least two entities each of the nine
\* strategies returns a panel that differs from the original in at least
\* one cell, for every random choice it can make.
C25_StrategyChangesPanel ==
    (/\ pc = "applied" /\ last.attr \in Strategies
     /\ Cardinality(Filled(last.before)) >= 2 /\ last.err = "") =>
        \E k \in Cells : last.out.cells[k] # last.before.cells[k]

CountPreserving ==
    {"entity_swap", "reflect_panel", "global_attribute_change",
     "rotate_all_entities", "scramble_positions", "swap_attributes"}

\* C26: swap, reflection, global attribute change, rotate-all, scramble and
\* attribute swap return a panel with the same number of entities as their
\* input; removal returns strictly fewer when the input has at least one
\* entity; addition returns strictly more when the input has at least one
\* empty cell.
C26_EntityCounts ==
    (pc = "applied" /\ last.attr \in Strategies /\ last.err = "") =>
        LET before == Cardinality(Filled(last.before))
            after == Cardinality(Filled(last.out))
        IN /\ (last.attr \in CountPreserving) => after = before
           /\ (last.attr = "entity_remove" /\ before >= 1) => after < before
           /\ (last.attr = "entity_add" /\ before < Cardinality(Cells)) => after > before

\* an entity added to a panel that had six, and one removed from it
C26_Witness ==
    /\ pc = "applied" /\ last.err = ""
    /\ Cardinality(Filled(last.before)) = 6
    /\ \/ last.attr = "entity_add" /\ Cardinality(Filled(last.out)) = 7
       \/ last.attr = "entity_remove" /\ Cardinality(Filled(last.out)) = 5
       \/ last.attr = "scramble_positions" /\ last.out # last.before

\* every attribute of every entity of p lies in [min_val, max_val]
InRangePanel(p) ==
    \A k \in Filled(p), a \in PerturbedAttributes :
        p.cells[k][a] \in AttrMin(a)..AttrMax(a)

\* C39: in the global-attribute-change strategy, for every attribute of
\* type, size, angle and color, every in-range current value and every
\* change of -3..-1 or 1..3, the new value lies in [min_val, max_val], so
\* set_attr never rejects it and the strategy never raises; all entities of
\* the panel receive the same change.
C39_GlobalChangeInRange ==
    /\ \A a \in PerturbedAttributes, change \in GlobalChanges :
          \A current \in AttrMin(a)..AttrMax(a) :
             /\ GlobalValue(a, current, change) \in AttrMin(a)..AttrMax(a)
             /\ Validate(a, GlobalValue(a, current, change))
    /\ (/\ pc = "applied" /\ last.attr = "global_attribute_change"
        /\ InRangePanel(last.before)) =>
          /\ last.err = ""
          /\ InRangePanel(last.out)
          /\ Filled(last.before) # {} =>
                \E a \in PerturbedAttributes, change \in GlobalChanges :
                   \A k \in Cells :
                      last.out.cells[k] =
                         IF k \in Filled(last.before)
                         THEN [last.before.cells[k] EXCEPT
                                  ![a] = GlobalValue(a, last.before.cells[k][a], change)]
                         ELSE last.before.cells[k]
          /\ Filled(last.before) = {} => last.out.cells = last.before.cells

\* one change of the type applied to two entities, wrapping below min_val
\* for one of them and not for the other
C39_Witness ==
    /\ pc = "applied" /\ last.attr = "global_attribute_change" /\ last.err = ""
    /\ Cardinality(Filled(last.before)) = 2
    /\ \E change \in GlobalChanges :
          /\ \A k \in Filled(last.before) :
                last.out.cells[k].type =
                   GlobalValue("type", last.before.cells[k].type, change)
          /\ \E k \in Filled(last.before) :
                (last.before.cells[k].type + change) % (AttrMax("type") + 1)
                    < AttrMin("type")
          /\ \E k \in Filled(last.before) :
                last.out.cells[k].type = last.before.cells[k].type + change

\* C27: on a panel with 0 or 1 entities the entity-swap and attribute-swap
\* strategies return a panel equal to their input, cell for cell, and do not
\* raise.
C27_SwapFallback ==
    (/\ pc = "applied"
     /\ last.attr \in {"entity_swap", "swap_attributes"}
     /\ Cardinality(Filled(last.before)) <= 1) =>
        /\ last.err = ""
        /\ \A k \in Cells : last.out.cells[k] = last.before.cells[k]

\* entity_swap or swap_attributes applied to a panel with exactly one entity
C27_Witness ==
    /\ pc = "applied"
    /\ last.attr \in {"entity_swap", "swap_attributes"}
    /\ Cardinality(Filled(last.before)) = 1
    /\ last.err = ""

TierSet(c) == {StrategiesByDifficulty[c][i] : i \in 1..Len(StrategiesByDifficulty[c])}

\* the weights the generator of this state draws the tier with
TierWeights == CalculateStrategyWeights(GetDifficultyLevel(gen.difficulty))

\* the catalog is a partition with the given hard and medium tiers; the
\* weights are as stated; a strategy drawn by generate comes from the tier
\* that was drawn
TierCatalog(hard, medium) ==
    /\ \A st \in Strategies :
          Cardinality({x \in Tiers \X (1..Cardinality(Strategies)) :
                         /\ x[2] <= Len(StrategiesByDifficulty[x[1]])
                         /\ StrategiesByDifficulty[x[1]][x[2]] = st}) = 1
    /\ TierSet("hard") \cup TierSet("medium") \cup TierSet("easy") = Strategies
    /\ TierSet("hard") = hard
    /\ TierSet("medium") = medium
    /\ TierSet("easy") = {"reflect_panel", "scramble_positions"}
    /\ \A c \in Tiers : TierWeights[c] >= 0
    /\ TierWeights.hard + TierWeights.medium + TierWeights.easy = 100
    /\ gen.name = "hard" => TierWeights = [hard |-> 70, medium |-> 25, easy |-> 5]
    /\ gen.name = "easy" => TierWeights = [hard |-> 5, medium |-> 35, easy |-> 60]
    /\ gen.name \notin {"easy", "medium", "hard"} =>
          /\ gen.difficulty = MediumDifficulty
          /\ TierWeights = CalculateStrategyWeights("medium")
    /\ (last.op = "generate" /\ last.tier # "") =>
          /\ TierWeights[last.tier] > 0
          /\ last.tier = "hard" => last.attr \in hard
          /\ last.tier = "medium" => last.attr \in medium

UnsupportedAttribute(rule) == rule.kind = "progression" /\ rule.attr \notin EntityAttrs

\* C30 (as stated): a configuration error raised while a row is generated
\* (here: a rule with an unsupported attribute) is surfaced to the caller of
\* generate at its first occurrence; the retry loop neither catches it nor
\* repeats the attempt.  So with such a rule configured no attempt is ever
\* counted as failed and no second attempt is started.
C30_ConfigErrorSurfaced ==
    (/\ gen.phase = "generate"
     /\ \E k \in 1..Len(rules) : UnsupportedAttribute(rules[k])) =>
        (gen.failed = 0 /\ gen.total <= 1)

\* every seed the sampler can hand to the row generator is rejected by
\* _validate_num_panels before any rule is applied
SeedValidationFails ==
    \A sp \in SamplePanel(gen.cfg) :
        sp.err = "" =>
            RowGenerate(rules, rstate, <<sp.panel>>) =
                {[err |-> "InsufficientSeeds", sts |-> rstate, row |-> <<>>]}

\* C36: _generate_grid hands RowGenerator.generate one seed panel per row;
\* with a rule set that requires two panels every attempt of every puzzle
\* fails at seed validation, and generate(N, M) returns an empty list after
\* exactly N*M failed attempts.
C36_BinaryRuleSetFails ==
    (gen.phase = "generate" /\ RequiredPanels(rules) = 2) =>
        /\ pc \in {"attempt", "grid_row", "returned"}
        /\ gen.numPuzzles = 0 /\ gen.successful = 0
        /\ pc = "grid_row" => gen.row = 0 /\ SeedValidationFails
        /\ pc = "attempt" => gen.failed = gen.i * gen.M + gen.attempt
        /\ pc = "returned" => gen.failed = gen.N * gen.M /\ gen.total = gen.failed
        /\ rstate = [k \in 1..Len(rules) |-> FreshState(rules[k])]

\* ------------------------------------------------------------------------
\* Rules built from configuration entries
\* ------------------------------------------------------------------------
\* the longest list of entries handed to a builder
MaxEntries == 2

\* rules/__init__.py: the types registered besides "composite"
RegistryTypes ==
    {"attribute.progression", "attribute.arithmetic", "attribute.constant",
     "spatial.rotation", "spatial.shift"}

\* the keys of type_map (RuleFactory) and rule_map (PuzzleGenerator)
FactoryTypes == {"progression", "arithmetic", "constant", "distribute_three"}

\* rule_class(**parameters) for a known type, with the parameters followed
RuleOfType(type) ==
    CASE type \in {"attribute.progression", "progression"} ->
            MkRule("progression", "type", 1, 1)
      [] type \in {"attribute.arithmetic", "arithmetic"} -> MkRule("arithmetic", "size", 1, 2)
      [] type \in {"attribute.constant", "constant"} -> MkRule("constant", "type", 0, 1)
      [] type = "distribute_three" -> MkRule("distribute_three", "type", 0, 1)
      [] type = "spatial.rotation" -> Rotation(1, TRUE)
      [] OTHER -> MkRule("shift", "right", 1, 1)

Entry(type, subs) == [type |-> type, rules |-> subs]

\* entries found inside a composite entry
SubEntries ==
    { Entry("attribute.progression", <<>>), Entry("unknown.type", <<>>),
      Entry("composite", <<Entry("unknown.type", <<>>)>>) }

\* the entries of the configurations followed
Entries ==
    {Entry(t, <<>>) : t \in {"attribute.progression", "spatial.shift", "progression",
                             "distribute_three", "unknown.type"}}
    \cup {Entry("composite", subs) : subs \in UNION {[1..n -> SubEntries] : n \in 0..2}}

\* registry.instantiate_rule(rule_config): [err, rule]
RECURSIVE InstantiateRule(_)
InstantiateRule(entry) ==
    IF entry.type = "composite"
    THEN LET subs == [k \in 1..Len(entry.rules) |-> InstantiateRule(entry.rules[k])]
         IN IF \E k \in 1..Len(subs) : subs[k].err # ""
            THEN [err |-> "ValueError", rule |-> Composite(<<>>)]
            ELSE [err |-> "", rule |-> Composite([k \in 1..Len(subs) |-> subs[k].rule])]
    ELSE IF entry.type \in RegistryTypes
    THEN [err |-> "", rule |-> RuleOfType(entry.type)]
    ELSE [err |-> "ValueError", rule |-> Composite(<<>>)]

\* RuleFactory.create_from_config(rule_config)
CreateFromConfig(entry) ==
    IF entry.type \in FactoryTypes
    THEN [err |-> "", rule |-> RuleOfType(entry.type)]
    ELSE [err |-> "ValueError", rule |-> Composite(<<>>)]

\* rule_map[rule_type] in PuzzleGenerator._create_rules_from_config
RuleMapLookup(entry) ==
    IF entry.type \in FactoryTypes
    THEN [err |-> "", rule |-> RuleOfType(entry.type)]
    ELSE [err |-> "KeyError", rule |-> Composite(<<>>)]

Builders == {"registry", "factory", "puzzle_generator"}

BuildEntry(builder, entry) ==
    CASE builder = "registry" -> InstantiateRule(entry)
      [] builder = "factory" -> CreateFromConfig(entry)
      [] OTHER -> RuleMapLookup(entry)

\* sorted(config["rules"], key=lambda r: r["order"]); only the
\* PuzzleGenerator sorts
SortedByOrder(config) ==
    [i \in 1..Len(config) |->
        config[CHOOSE k \in 1..Len(config) :
                 Cardinality({j \in 1..Len(config) : config[j].order < config[k].order}) = i - 1]]

\* a faulty builder that leaves out the entries it cannot build
BuildRulesSkipping(builder, config) ==
    LET built == [k \in 1..Len(config) |-> BuildEntry(builder, config[k])]
        RECURSIVE Kept(_)
        Kept(k) == IF k = 0 THEN <<>>
                   ELSE IF built[k].err = "" THEN Append(Kept(k - 1), built[k].rule)
                   ELSE Kept(k - 1)
    IN [err |-> "", rules |-> Kept(Len(config))]

\* the rule list a builder makes of the entries: the loop stops at the first
\* entry that raises and no list is returned
BuildRules(builder, config) ==
    LET entries == IF builder = "puzzle_generator" THEN SortedByOrder(config) ELSE config
        built == [k \in 1..Len(entries) |-> BuildEntry(builder, entries[k])]
        failed == {k \in 1..Len(entries) : built[k].err # ""}
    IN IF failed # {}
       THEN [err |-> built[CHOOSE k \in failed : \A j \in failed : k <= j].err,
             rules |-> <<>>]
       ELSE [err |-> "", rules |-> [k \in 1..Len(entries) |-> built[k].rule]]

\* the configurations followed: entries in ascending or descending order
Configurations ==
    UNION {{[k \in 1..n |-> [type |-> es[k].type, rules |-> es[k].rules,
                             order |-> IF up THEN k ELSE n + 1 - k]] :
              es \in [1..n -> Entries], up \in BOOLEAN}
           : n \in 0..MaxEntries}

ConfigInit ==
    /\ rules = <<>>
    /\ rstate = <<>>
    /\ pc = "config"
    /\ panels = <<>>
    /\ last = NoCall
    /\ gen \in {[builder |-> b, config |-> c] : b \in Builders, c \in Configurations}

\* the builder is run over the entries
BuildRulesCall ==
    /\ pc = "config"
    /\ LET o == BuildRules(gen.builder, gen.config)
       IN /\ rules' = o.rules
          /\ last' = [NoCall EXCEPT !.op = "build", !.err = o.err]
          /\ pc' = IF o.err = "" THEN "built" ELSE "failed"
    /\ UNCHANGED <<rstate, panels, gen>>

ConfigNext == BuildRulesCall

ConfigSpec == ConfigInit /\ [][ConfigNext]_vars

\* the types a builder knows
KnownTypes(builder) ==
    IF builder = "registry" THEN RegistryTypes \cup {"composite"} ELSE FactoryTypes

\* the types named in a list of entries, composites' entries included
RECURSIVE TypesIn(_)
TypesIn(entries) ==
    UNION {{entries[k].type} \cup TypesIn(entries[k].rules) : k \in 1..Len(entries)}

\* C29: building rules from configuration fails with an error for every
\* configuration holding an entry of unknown type, at top level or nested
\* in a composite; no rule list is produced and the entry is never skipped.
C29_UnknownTypeFails ==
    (pc \in {"built", "failed"}) =>
        /\ (~(TypesIn(gen.config) \subseteq KnownTypes(gen.builder))) =>
              (pc = "failed" /\ last.err # "" /\ rules = <<>>)
        /\ (pc = "built") => Len(rules) = Len(gen.config)

\* a composite entry holding an entry of unknown type two levels down, after
\* a known entry, handed to the registry
C29_Witness ==
    /\ pc = "failed" /\ gen.builder = "registry" /\ Len(gen.config) = 2
    /\ gen.config[1].type = "spatial.shift"
    /\ gen.config[2].type = "composite" /\ Len(gen.config[2].rules) = 2
    /\ gen.config[2].rules[2].type = "composite"

\* ------------------------------------------------------------------------
\* ConstrainedPanelSampler.sample_panel, called once per grid row
\* ------------------------------------------------------------------------
\* the constraints sampled under, each with the number of rows followed
SamplerSetups ==
    { <<Config(<<>>, 0, 1, <<2, 3>>), 3>>,
      <<[Config(<<>>, 2, 2, <<2, 2>>) EXCEPT !.color = <<1, 2>>], 1>>,
      <<Config(<<>>, 8, 9, <<2, 2>>), 2>>,
      <<Config(<<>>, 9, 10, <<2, 2>>), 1>>,
      <<Config(<<>>, 1, 1, <<5, 6>>), 1>>,
      <<Config(<<>>, 2, 1, <<2, 2>>), 1>>,
      <<Config(<<>>, -1, 0, <<2, 2>>), 1>> }

SamplerInit ==
    /\ rules = <<>>
    /\ rstate = <<>>
    /\ pc = "sample"
    /\ panels = <<>>
    /\ last = NoCall
    /\ gen \in {[phase |-> "sampler", cfg |-> s[1], rows |-> s[2]] : s \in SamplerSetups}

\* "seed_panel = self.panel_sampler.sample_panel()" of one row; `panels`
\* holds the seeds of the rows sampled so far
SamplePanelCall ==
    /\ pc = "sample"
    /\ Len(panels) < gen.rows
    /\ \E o \in SamplePanelOn(gen.cfg, Cells) :
         /\ panels' = IF o.err = "" THEN Append(panels, o.panel) ELSE panels
         /\ pc' = IF o.err = "" THEN "sample" ELSE "failed"
         /\ last' = [NoCall EXCEPT !.op = "sample_panel", !.out = o.panel,
                                   !.err = o.err, !.row = panels,
                                   !.calls = last.calls + 1]
    /\ UNCHANGED <<rules, rstate, gen>>

SamplerNext == SamplePanelCall

SamplerSpec == SamplerInit /\ [][SamplerNext]_vars

\* C32: every panel sample_panel returns has between min_entities and
\* max_entities entities, each entity's type, size, angle and color lies in
\* the configured range of that attribute, and every cell without an entity
\* is all zeros; the seeds of one grid are sampled independently: a call
\* leaves the earlier seeds as they were, and whatever they are, every
\* outcome of sample_panel is possible for the next row.
C32_SampledPanel ==
    /\ (pc = "sample" /\ last.op = "sample_panel") =>
          /\ Cardinality(Filled(last.out)) \in gen.cfg.min_entities..gen.cfg.max_entities
          /\ \A k \in Filled(last.out) :
                /\ last.out.cells[k].type \in Range(gen.cfg.type)
                /\ last.out.cells[k].size \in Range(gen.cfg.size)
                /\ last.out.cells[k].angle \in Range(gen.cfg.angle)
                /\ last.out.cells[k].color \in Range(gen.cfg.color)
          /\ \A k \in Cells \ Filled(last.out) : last.out.cells[k] = EmptyEntity
          /\ panels = Append(last.row, last.out)
    /\ (pc = "sample" /\ gen.phase = "sampler" /\ Len(panels) < gen.rows) =>
          \A o \in SamplePanelOn(gen.cfg, Cells) :
             o.err = "" => ENABLED (SamplePanelCall /\ panels' = Append(panels, o.panel))

\* three seeds of one grid that differ from each other: an empty panel, a
\* panel with one square and a panel with one pentagon elsewhere
C32_Witness ==
    /\ pc = "sample" /\ last.op = "sample_panel" /\ Len(panels) = 3
    /\ Filled(panels[1]) = {}
    /\ Filled(panels[2]) = {1} /\ panels[2].cells[1].type = 2
    /\ Filled(panels[3]) = {9} /\ panels[3].cells[9].type = 3

====
